---- MODULE Spec2Model ----
(***************************************************************************)
(* The Cmel bytecode virtual machine (src/src/vm.c) as a state machine.    *)
(*                                                                         *)
(* The VM state is the C struct VM of src/src/vm.h.  A bytecode program is *)
(* the VM's input: every action is the handler of one opcode of run(), and *)
(* the instruction executed next (with its operands) is drawn from a small *)
(* alphabet, so a behaviour is the execution of some program; code that is *)
(* fixed (the body of a module, compiled from its file; the declarations   *)
(* of a script with classes; the functions rec and g) is executed through  *)
(* the ip of its frame.  The nested C activations of run() (loadModule)    *)
(* are kept in cstack.                                                     *)
(***************************************************************************)
EXTENDS Integers, Sequences, FiniteSets, TLC

VARIABLES
    stack,          \* vm.stack: the slots, 1-based; slot i is vm.stack[i-1]
    stackTop,       \* vm.stackTop - vm.stack (an integer; may leave the array)
    frames,         \* vm.frames[0 .. frameCount-1], Len(frames) = vm.frameCount
    globals,        \* vm.globals (a Table: name -> Value)
    modules,        \* vm.modules (a Table: path -> module object id)
    moduleObjs,     \* the ObjModule objects allocated so far, by id
    currentModule,  \* vm.currentModule (0 is NULL)
    upvalues,       \* the ObjUpvalue objects allocated so far, by id
    openUpvalues,   \* vm.openUpvalues: the linked list, head first
    nextObj,        \* number of closures allocated (object identity)
    classes,        \* the ObjClass objects allocated so far, by id
    instances,      \* the ObjInstance objects allocated so far, by id
    heap,           \* the ObjList and ObjMap objects allocated so far, by id
    testMode,       \* vm.testMode
    testFailures,   \* vm.testFailures (an ObjList*, possibly NULL)
    cstack,         \* the C activations of loadModule waiting for a nested run()
    files,          \* the module files on disk: path -> what fopen and compile give
    status,         \* where interpret() is: RUNNING, or how it ended
    stderr,         \* the runtime error reports printed so far
    stdout,         \* the lines OP_PRINT has written
    raised,         \* the runtimeError calls of the last handler: message, frames then
    obs,            \* the instruction executed last, with its operands
    protoList,      \* the failure list the test-mode protocol prescribes
    varValue,       \* per upvalue: the current value of the variable it captured
    exportSnapshot, \* per (module, name): the global's value when it was exported
    front,          \* the front ends reading the source: compiler and analyzer
    act,            \* a C function stepped between its allocations: locals and roots
    strings,        \* vm.strings and the ObjString objects allocated so far, by id
    tempRoots       \* vm.tempRootCount and vm.tempRoots[0 .. tempRootCount-1]

vars == <<stack, stackTop, frames, globals, modules, moduleObjs, currentModule,
          upvalues, openUpvalues, nextObj, classes, instances, heap, testMode,
          testFailures, cstack, files, status, stderr, stdout, raised, obs, protoList,
          varValue, exportSnapshot, front, act, strings, tempRoots>>

----------------------------------------------------------------------------
(* Bounds of the exploration *)

MaxTemps == 3
MaxDepth == 3
MaxClosures == 3
MaxFailures == 2
MaxLoads == 2
MaxUpvalues == 2
MaxInstances == 1
MaxSum == 3
MaxChars == 8
MaxObjects == 2
MaxItems == 3
MaxAssign == 2       \* the assignments in a module body
MaxIter == 2         \* the limit of the loops of the loop programs

(* Program constants *)

FRAMES_MAX == 64

----------------------------------------------------------------------------
(* Values (src/src/value.c, object.h as used by vm.c) *)

NIL_VAL == [t |-> "nil"]
BOOL_VAL(b) == [t |-> "bool", b |-> b]
NUMBER_VAL(n) == [t |-> "number", n |-> n]
ERROR_VAL == [t |-> "error"]
STRING_VAL(chars) == [t |-> "string", chars |-> chars]
NATIVE_VAL(name) == [t |-> "native", name |-> name]
CLOSURE_VAL(id, fn, module, ups) ==
    [t |-> "closure", id |-> id, fn |-> fn, module |-> module, upvalues |-> ups]
CLASS_VAL(id) == [t |-> "class", id |-> id]
INSTANCE_VAL(id) == [t |-> "instance", id |-> id]
BOUND_METHOD_VAL(receiver, method) ==
    [t |-> "bound_method", receiver |-> receiver, method |-> method]
FRACTION_VAL(n, den) == [t |-> "number", n |-> n, den |-> den]
LIST_VAL(id) == [t |-> "list", id |-> id]
BOUND_NATIVE_VAL(receiver, name) == [t |-> "bound_native", receiver |-> receiver, name |-> name]
MAP_VAL(id) == [t |-> "map", id |-> id]
OBJ_VAL(id) == [t |-> "object", id |-> id]

IS_NIL(v) == v.t = "nil"
IS_BOOL(v) == v.t = "bool"
IS_NUMBER(v) == v.t = "number"
IS_STRING(v) == v.t = "string"
IS_ERROR(v) == v.t = "error"
IS_NATIVE(v) == v.t = "native"
IS_CLOSURE(v) == v.t = "closure"
IS_CLASS(v) == v.t = "class"
IS_INSTANCE(v) == v.t = "instance"
IS_BOUND_METHOD(v) == v.t = "bound_method"
IS_LIST(v) == v.t = "list"
IS_BOUND_NATIVE(v) == v.t = "bound_native"
IS_MAP(v) == v.t = "map"

\* A formatted message: the format string and its arguments (as text)
Msg(fmt, args) == [fmt |-> fmt, args |-> args]

\* copyString of a literal
Str(chars) == STRING_VAL(Msg(chars, <<>>))

isFalsey(v) == IS_NIL(v) \/ (IS_BOOL(v) /\ ~v.b)

\* Objects are equal when they are the same object (AS_OBJ(a) == AS_OBJ(b)).
\* A string value of the interpreter stands for the one object interned
\* with its characters; OBJ_VAL is an object by its address.
\* A bound method has no identity here: every bindMethod allocates a new one,
\* and the programs explored do not compare a bound method with itself.
valuesEqual(a, b) ==
    IF a.t # b.t THEN FALSE
    ELSE IF IS_BOOL(a) THEN a.b = b.b
    ELSE IF IS_NIL(a) THEN TRUE
    ELSE IF IS_NUMBER(a) THEN a.n = b.n
    ELSE IF IS_STRING(a) THEN a.chars = b.chars
    ELSE IF IS_NATIVE(a) THEN a.name = b.name
    ELSE IF IS_CLOSURE(a) \/ IS_CLASS(a) \/ IS_INSTANCE(a) \/ a.t = "object" THEN a.id = b.id
    ELSE FALSE

\* An instruction with its operands
Ins(op, name, path, argc, v) ==
    [op |-> op, name |-> name, path |-> path, argc |-> argc, v |-> v]

----------------------------------------------------------------------------
(* The compiler on loops, `if` and `break`.  A statement of the source is   *)
(* one of                                                                  *)
(*     var name = n;        name = n;        name = name + 1;              *)
(*     print name;          print "text";    break;                        *)
(*     while (name < n) { body }             if (name == n) { body }       *)
(*     fun name() {..}      export name;     name();                       *)
(* over global variables (the body of a function is Functions[name].code).  The code is laid out as the single-pass         *)
(* compiler this one derives from lays it out; a jump operand counts       *)
(* instructions, not bytes, from the instruction after the jump.           *)

Stmt(kind, name, n, text, body) ==
    [kind |-> kind, name |-> name, n |-> n, text |-> text, body |-> body]

VarStmt(name, n) == Stmt("var", name, n, "", <<>>)
AssignStmt(name, n) == Stmt("assign", name, n, "", <<>>)
IncrStmt(name) == Stmt("incr", name, 0, "", <<>>)
ShowStmt(name) == Stmt("show", name, 0, "", <<>>)
SayStmt(text) == Stmt("say", "", 0, text, <<>>)
BreakStmt == Stmt("break", "", 0, "", <<>>)
WhileStmt(name, n, body) == Stmt("while", name, n, "", body)
IfStmt(name, n, body) == Stmt("if", name, n, "", body)
FunStmt(name) == Stmt("fun", name, 0, "", <<>>)
ExportStmt(name) == Stmt("export", name, 0, "", <<>>)
CallStmt(name) == Stmt("call", name, 0, "", <<>>)

\* The placeholder a `break` emits: a jump whose operand is not known yet
Placeholder == Ins("JUMP", "break", "", 0, NIL_VAL)

\* The end of a loop: every pending break of the loop is patched to jump to
\* the loop-exit address, the instruction after the last one of the loop
patchBreaks(code) ==
    [i \in 1..Len(code) |->
        IF code[i] = Placeholder THEN Ins("JUMP", "", "", Len(code) - i, NIL_VAL)
        ELSE code[i]]

\* name op n
comparison(name, n, op) ==
    <<Ins("GET_GLOBAL", name, "", 0, NIL_VAL),
      Ins("CONSTANT", "", "", 0, NUMBER_VAL(n)),
      Ins(op, "", "", 0, NIL_VAL)>>

\* loopStart: condition; JUMP_IF_FALSE exit; POP; body; LOOP loopStart;
\* exit: POP
whileStatement(cond, body) ==
    patchBreaks(cond
                \o <<Ins("JUMP_IF_FALSE", "", "", Len(body) + 2, NIL_VAL),
                     Ins("POP", "", "", 0, NIL_VAL)>>
                \o body
                \o <<Ins("LOOP", "", "", Len(cond) + Len(body) + 3, NIL_VAL),
                     Ins("POP", "", "", 0, NIL_VAL)>>)

\* condition; JUMP_IF_FALSE else; POP; body; JUMP end; else: POP; end:
ifStatement(cond, body) ==
    cond
    \o <<Ins("JUMP_IF_FALSE", "", "", Len(body) + 2, NIL_VAL),
         Ins("POP", "", "", 0, NIL_VAL)>>
    \o body
    \o <<Ins("JUMP", "", "", 1, NIL_VAL),
         Ins("POP", "", "", 0, NIL_VAL)>>

RECURSIVE block(_)
statement(st) ==
    CASE st.kind = "var" ->
           <<Ins("CONSTANT", "", "", 0, NUMBER_VAL(st.n)),
             Ins("DEFINE_GLOBAL", st.name, "", 0, NIL_VAL)>>
      [] st.kind = "assign" ->
           <<Ins("CONSTANT", "", "", 0, NUMBER_VAL(st.n)),
             Ins("SET_GLOBAL", st.name, "", 0, NIL_VAL),
             Ins("POP", "", "", 0, NIL_VAL)>>
      [] st.kind = "incr" ->
           <<Ins("GET_GLOBAL", st.name, "", 0, NIL_VAL),
             Ins("CONSTANT", "", "", 0, NUMBER_VAL(1)),
             Ins("ADD", "", "", 0, NIL_VAL),
             Ins("SET_GLOBAL", st.name, "", 0, NIL_VAL),
             Ins("POP", "", "", 0, NIL_VAL)>>
      [] st.kind = "show" ->
           <<Ins("GET_GLOBAL", st.name, "", 0, NIL_VAL),
             Ins("PRINT", "", "", 0, NIL_VAL)>>
      [] st.kind = "say" ->
           <<Ins("CONSTANT", "", "", 0, Str(st.text)),
             Ins("PRINT", "", "", 0, NIL_VAL)>>
      [] st.kind = "break" -> <<Placeholder>>
      [] st.kind = "fun" ->
           <<Ins("CLOSURE", st.name, "", 0, NIL_VAL),
             Ins("DEFINE_GLOBAL", st.name, "", 0, NIL_VAL)>>
      [] st.kind = "export" -> <<Ins("EXPORT", st.name, "", 0, NIL_VAL)>>
      [] st.kind = "call" ->
           <<Ins("GET_GLOBAL", st.name, "", 0, NIL_VAL),
             Ins("CALL", "", "", 0, NIL_VAL),
             Ins("POP", "", "", 0, NIL_VAL)>>
      [] st.kind = "while" ->
           whileStatement(comparison(st.name, st.n, "LESS"), block(st.body))
      [] st.kind = "if" ->
           ifStatement(comparison(st.name, st.n, "EQUAL"), block(st.body))

block(stmts) ==
    IF stmts = <<>> THEN <<>>
    ELSE statement(Head(stmts)) \o block(Tail(stmts))

\* compile(source): the script function; endCompiler emits NIL and RETURN
compile(stmts) ==
    [name |-> "", arity |-> 0, ups |-> <<>>,
     code |-> block(stmts) \o <<Ins("NIL", "", "", 0, NIL_VAL),
                                Ins("RETURN", "", "", 0, NIL_VAL)>>]

\* The loop programs, one for each a and b in 0..MaxIter:
\*     var i = 0; var j = 0;
\*     while (i < MaxIter) {
\*         j = 0;
\*         while (j < MaxIter) { if (j == b) { break; print "no"; } print j; j = j + 1; }
\*         if (i == a) { break; print "no"; }
\*         print i; i = i + 1;
\*     }
\*     print "end";
\* (a or b equal to MaxIter: that loop runs to its end)
LoopSource(a, b) ==
    <<VarStmt("i", 0), VarStmt("j", 0),
      WhileStmt("i", MaxIter,
          <<AssignStmt("j", 0),
            WhileStmt("j", MaxIter,
                <<IfStmt("j", b, <<BreakStmt, SayStmt("no")>>),
                  ShowStmt("j"), IncrStmt("j")>>),
            IfStmt("i", a, <<BreakStmt, SayStmt("no")>>),
            ShowStmt("i"), IncrStmt("i")>>),
      SayStmt("end")>>

LoopName(a, b) == "loop" \o ToString(a) \o ToString(b)

LoopNames == {LoopName(a, b) : a \in 0..MaxIter, b \in 0..MaxIter}

SourceOf(name) ==
    LET ab == CHOOSE ab \in (0..MaxIter) \X (0..MaxIter) : LoopName(ab[1], ab[2]) = name
    IN  LoopSource(ab[1], ab[2])

LoopFunctions == [name \in LoopNames |-> compile(SourceOf(name))]

(* The functions the compiler produced: name ("" is NULL: a script or a    *)
(* module body), arity, upvalue descriptors (isLocal, index) and code.     *)
(* Where the code ends, the code is not fixed: any instruction may come    *)
(* next (the whole function for code <<>>).                                *)
(* The code of a module body is the code of its file; rec is               *)
(* `fun rec() { return f(); }`; limit is a script starting with            *)
(* `import "A";`, limitT one starting with `__enterTestMode(); import "A";` *)
(* getV is `fun getV() { return V; }`, getX `fun getX() { return X; }`,    *)
(* setX `fun setX() { X = 2; }` and bump `fun bump() { V = V + 1; }`;      *)
(* keep is `fun keep(x) { fun getx() { return x; } return getx; }` and     *)
(* geta the `fun geta() { return a; }` of a block that declares a.         *)
(* share is a script starting with `var S; var G; fun pair(x, y) { .. }`,  *)
(* whose function pair declares some of `fun setx() { x = 2; }`,           *)
(* `fun getx() { return x; }`, `fun gety() { return y; }` and              *)
(* `fun swap() { y = x; }`.  primitives is a script starting with          *)
(* `var l = [1]; var n = 1;`, and roots one starting with                  *)
(* `var l = [1, 2]; fun each(x) { .. } fun g() {}`.                        *)
Functions ==
    [script |-> [name |-> "", arity |-> 0, ups |-> <<>>, code |-> <<>>],
     module |-> [name |-> "", arity |-> 0, ups |-> <<>>, code |-> <<>>],
     rec    |-> [name |-> "rec", arity |-> 0, ups |-> <<>>,
                 code |-> <<Ins("GET_GLOBAL", "f", "", 0, NIL_VAL),
                            Ins("CALL", "", "", 0, NIL_VAL),
                            Ins("RETURN", "", "", 0, NIL_VAL)>>],
     classes |-> [name |-> "", arity |-> 0, ups |-> <<>>,
                 code |-> <<Ins("CLASS", "K", "", 0, NIL_VAL),
                            Ins("DEFINE_GLOBAL", "K", "", 0, NIL_VAL),
                            Ins("GET_GLOBAL", "K", "", 0, NIL_VAL),
                            Ins("CLOSURE", "init", "", 0, NIL_VAL),
                            Ins("METHOD", "init", "", 0, NIL_VAL),
                            Ins("CLOSURE", "m", "", 0, NIL_VAL),
                            Ins("METHOD", "m", "", 0, NIL_VAL),
                            Ins("POP", "", "", 0, NIL_VAL),
                            Ins("CLASS", "L", "", 0, NIL_VAL),
                            Ins("DEFINE_GLOBAL", "L", "", 0, NIL_VAL),
                            Ins("GET_GLOBAL", "K", "", 0, NIL_VAL),
                            Ins("GET_GLOBAL", "L", "", 0, NIL_VAL),
                            Ins("INHERIT", "", "", 0, NIL_VAL),
                            Ins("GET_GLOBAL", "L", "", 0, NIL_VAL),
                            Ins("CLOSURE", "Lm", "", 0, NIL_VAL),
                            Ins("METHOD", "m", "", 0, NIL_VAL),
                            Ins("POP", "", "", 0, NIL_VAL),
                            Ins("POP", "", "", 0, NIL_VAL),
                            Ins("CLOSURE", "rec", "", 0, NIL_VAL),
                            Ins("DEFINE_GLOBAL", "f", "", 0, NIL_VAL),
                            Ins("CLOSURE", "g", "", 0, NIL_VAL),
                            Ins("DEFINE_GLOBAL", "g", "", 0, NIL_VAL),
                            Ins("CLASS", "N", "", 0, NIL_VAL),
                            Ins("DEFINE_GLOBAL", "N", "", 0, NIL_VAL),
                            Ins("GET_GLOBAL", "N", "", 0, NIL_VAL),
                            Ins("POP", "", "", 0, NIL_VAL)>>],
     badsuper |-> [name |-> "", arity |-> 0, ups |-> <<>>,
                 code |-> <<Ins("CLASS", "N", "", 0, NIL_VAL),
                            Ins("DEFINE_GLOBAL", "N", "", 0, NIL_VAL),
                            Ins("GET_GLOBAL", "clock", "", 0, NIL_VAL),
                            Ins("GET_GLOBAL", "N", "", 0, NIL_VAL),
                            Ins("INHERIT", "", "", 0, NIL_VAL)>>],
     limit  |-> [name |-> "", arity |-> 0, ups |-> <<>>,
                 code |-> <<Ins("IMPORT", "", "A", 0, NIL_VAL)>>],
     limitT |-> [name |-> "", arity |-> 0, ups |-> <<>>,
                 code |-> <<Ins("GET_GLOBAL", "__enterTestMode", "", 0, NIL_VAL),
                            Ins("CALL", "", "", 0, NIL_VAL),
                            Ins("POP", "", "", 0, NIL_VAL),
                            Ins("IMPORT", "", "A", 0, NIL_VAL)>>],
     g      |-> [name |-> "g", arity |-> 0, ups |-> <<>>,
                 code |-> <<Ins("NIL", "", "", 0, NIL_VAL),
                            Ins("RETURN", "", "", 0, NIL_VAL)>>],
     init   |-> [name |-> "init", arity |-> 1, ups |-> <<>>, code |-> <<>>],
     m      |-> [name |-> "m", arity |-> 0, ups |-> <<>>, code |-> <<>>],
     Lm     |-> [name |-> "m", arity |-> 0, ups |-> <<>>, code |-> <<>>],
     outer  |-> [name |-> "outer", arity |-> 0, ups |-> <<>>, code |-> <<>>],
     inner  |-> [name |-> "inner", arity |-> 0,
                 ups |-> <<[isLocal |-> TRUE, index |-> 1]>>, code |-> <<>>],
     getV   |-> [name |-> "getV", arity |-> 0, ups |-> <<>>,
                 code |-> <<Ins("GET_GLOBAL", "V", "", 0, NIL_VAL),
                            Ins("RETURN", "", "", 0, NIL_VAL)>>],
     getX   |-> [name |-> "getX", arity |-> 0, ups |-> <<>>,
                 code |-> <<Ins("GET_GLOBAL", "X", "", 0, NIL_VAL),
                            Ins("RETURN", "", "", 0, NIL_VAL)>>],
     setX   |-> [name |-> "setX", arity |-> 0, ups |-> <<>>,
                 code |-> <<Ins("CONSTANT", "", "", 0, NUMBER_VAL(2)),
                            Ins("SET_GLOBAL", "X", "", 0, NIL_VAL),
                            Ins("POP", "", "", 0, NIL_VAL),
                            Ins("NIL", "", "", 0, NIL_VAL),
                            Ins("RETURN", "", "", 0, NIL_VAL)>>],
     bump   |-> [name |-> "bump", arity |-> 0, ups |-> <<>>,
                 code |-> <<Ins("GET_GLOBAL", "V", "", 0, NIL_VAL),
                            Ins("CONSTANT", "", "", 0, NUMBER_VAL(1)),
                            Ins("ADD", "", "", 0, NIL_VAL),
                            Ins("SET_GLOBAL", "V", "", 0, NIL_VAL),
                            Ins("POP", "", "", 0, NIL_VAL),
                            Ins("NIL", "", "", 0, NIL_VAL),
                            Ins("RETURN", "", "", 0, NIL_VAL)>>],
     keep   |-> [name |-> "keep", arity |-> 1, ups |-> <<>>,
                 code |-> <<Ins("CLOSURE", "getx", "", 0, NIL_VAL),
                            Ins("GET_LOCAL", "", "", 2, NIL_VAL),
                            Ins("RETURN", "", "", 0, NIL_VAL)>>],
     getx   |-> [name |-> "getx", arity |-> 0,
                 ups |-> <<[isLocal |-> TRUE, index |-> 1]>>,
                 code |-> <<Ins("GET_UPVALUE", "", "", 0, NIL_VAL),
                            Ins("RETURN", "", "", 0, NIL_VAL)>>],
     geta   |-> [name |-> "geta", arity |-> 0,
                 ups |-> <<[isLocal |-> TRUE, index |-> 1]>>,
                 code |-> <<Ins("GET_UPVALUE", "", "", 0, NIL_VAL),
                            Ins("RETURN", "", "", 0, NIL_VAL)>>],
     primitives |-> [name |-> "", arity |-> 0, ups |-> <<>>,
                 code |-> <<Ins("CONSTANT", "", "", 0, NUMBER_VAL(1)),
                            Ins("BUILD_LIST", "", "", 1, NIL_VAL),
                            Ins("DEFINE_GLOBAL", "l", "", 0, NIL_VAL),
                            Ins("CONSTANT", "", "", 0, NUMBER_VAL(1)),
                            Ins("DEFINE_GLOBAL", "n", "", 0, NIL_VAL)>>],
     share  |-> [name |-> "", arity |-> 0, ups |-> <<>>,
                 code |-> <<Ins("NIL", "", "", 0, NIL_VAL),
                            Ins("DEFINE_GLOBAL", "S", "", 0, NIL_VAL),
                            Ins("NIL", "", "", 0, NIL_VAL),
                            Ins("DEFINE_GLOBAL", "G", "", 0, NIL_VAL),
                            Ins("CLOSURE", "pair", "", 0, NIL_VAL),
                            Ins("DEFINE_GLOBAL", "pair", "", 0, NIL_VAL)>>],
     pair   |-> [name |-> "pair", arity |-> 2, ups |-> <<>>, code |-> <<>>],
     roots  |-> [name |-> "", arity |-> 0, ups |-> <<>>,
                 code |-> <<Ins("CONSTANT", "", "", 0, NUMBER_VAL(1)),
                            Ins("CONSTANT", "", "", 0, NUMBER_VAL(2)),
                            Ins("BUILD_LIST", "", "", 2, NIL_VAL),
                            Ins("DEFINE_GLOBAL", "l", "", 0, NIL_VAL),
                            Ins("CLOSURE", "each", "", 0, NIL_VAL),
                            Ins("DEFINE_GLOBAL", "each", "", 0, NIL_VAL),
                            Ins("CLOSURE", "g", "", 0, NIL_VAL),
                            Ins("DEFINE_GLOBAL", "g", "", 0, NIL_VAL)>>],
     each   |-> [name |-> "each", arity |-> 1, ups |-> <<>>, code |-> <<>>],
     setx   |-> [name |-> "setx", arity |-> 0,
                 ups |-> <<[isLocal |-> TRUE, index |-> 1]>>,
                 code |-> <<Ins("CONSTANT", "", "", 0, NUMBER_VAL(2)),
                            Ins("SET_UPVALUE", "", "", 0, NIL_VAL),
                            Ins("POP", "", "", 0, NIL_VAL),
                            Ins("NIL", "", "", 0, NIL_VAL),
                            Ins("RETURN", "", "", 0, NIL_VAL)>>],
     gety   |-> [name |-> "gety", arity |-> 0,
                 ups |-> <<[isLocal |-> TRUE, index |-> 2]>>,
                 code |-> <<Ins("GET_UPVALUE", "", "", 0, NIL_VAL),
                            Ins("RETURN", "", "", 0, NIL_VAL)>>],
     swap   |-> [name |-> "swap", arity |-> 0,
                 ups |-> <<[isLocal |-> TRUE, index |-> 2],
                           [isLocal |-> TRUE, index |-> 1]>>,
                 code |-> <<Ins("GET_UPVALUE", "", "", 1, NIL_VAL),
                            Ins("SET_UPVALUE", "", "", 0, NIL_VAL),
                            Ins("POP", "", "", 0, NIL_VAL),
                            Ins("NIL", "", "", 0, NIL_VAL),
                            Ins("RETURN", "", "", 0, NIL_VAL)>>]]
    @@ LoopFunctions

(* Native functions and their arity as registered by initVM *)
NativeArity ==
    [clock |-> 0, input |-> 0, readFile |-> 1, number |-> 1,
     __enterTestMode |-> 0, __exitTestMode |-> 0, __setCurrentTest |-> 1,
     __testFailed |-> 0, __getLastFailure |-> 0, __clearLastFailure |-> 0,
     assert |-> -1, assertEqual |-> 2]

----------------------------------------------------------------------------
(* Hash tables (Table): a function from the keys present to their values *)

EmptyTable == [k \in {} |-> NIL_VAL]

tableHas(t, k) == k \in DOMAIN t

tableGet(t, k) == t[k]

\* tableSet returns true when the key is new; the table after it:
tableSet(t, k, v) == [x \in (DOMAIN t) \cup {k} |-> IF x = k THEN v ELSE t[x]]

tableDelete(t, k) == [x \in (DOMAIN t) \ {k} |-> t[x]]

tableAddAll(from, to) ==
    [x \in (DOMAIN from) \cup (DOMAIN to) |-> IF x \in DOMAIN from THEN from[x] ELSE to[x]]

----------------------------------------------------------------------------
(* The VM state as one record, so that the C functions compose *)

VM ==
    [stack |-> stack, stackTop |-> stackTop, frames |-> frames, globals |-> globals,
     modules |-> modules, moduleObjs |-> moduleObjs, currentModule |-> currentModule,
     upvalues |-> upvalues, openUpvalues |-> openUpvalues, nextObj |-> nextObj,
     classes |-> classes, instances |-> instances, heap |-> heap,
     testMode |-> testMode, testFailures |-> testFailures, cstack |-> cstack,
     status |-> status, stderr |-> stderr, stdout |-> stdout, raised |-> <<>>,
     tempRoots |-> tempRoots]

CommitVM(s) ==
    /\ stack' = s.stack
    /\ stackTop' = s.stackTop
    /\ frames' = s.frames
    /\ globals' = s.globals
    /\ modules' = s.modules
    /\ moduleObjs' = s.moduleObjs
    /\ currentModule' = s.currentModule
    /\ upvalues' = s.upvalues
    /\ openUpvalues' = s.openUpvalues
    /\ nextObj' = s.nextObj
    /\ classes' = s.classes
    /\ instances' = s.instances
    /\ heap' = s.heap
    /\ testMode' = s.testMode
    /\ testFailures' = s.testFailures
    /\ cstack' = s.cstack
    /\ status' = s.status
    /\ stderr' = s.stderr
    /\ stdout' = s.stdout
    /\ raised' = s.raised
    /\ tempRoots' = s.tempRoots

NullList == [isNull |-> TRUE, items |-> <<>>]
newList == [isNull |-> FALSE, items |-> <<>>]

frameCount(s) == Len(s.frames)

\* push: *vm.stackTop = value; vm.stackTop++
push(s, v) ==
    [s EXCEPT !.stack = Append(SubSeq(s.stack, 1, s.stackTop), v),
              !.stackTop = s.stackTop + 1]

\* pop: vm.stackTop--
pop(s) ==
    [s EXCEPT !.stack = SubSeq(s.stack, 1, s.stackTop - 1),
              !.stackTop = s.stackTop - 1]

\* peek(distance) == vm.stackTop[-1 - distance]
peek(s, distance) == s.stack[s.stackTop - distance]

\* vm.stackTop -= n  (pointer arithmetic only: nothing is written)
dropN(s, n) ==
    [s EXCEPT !.stack = IF s.stackTop - n < 0 THEN s.stack
                        ELSE SubSeq(s.stack, 1, s.stackTop - n),
              !.stackTop = s.stackTop - n]

\* resetStack moves the pointers only: the memory of the stack keeps its values
resetStack(s) ==
    [s EXCEPT !.stackTop = 0, !.frames = <<>>, !.openUpvalues = <<>>]

\* vm.tempRoots[vm.tempRootCount++] = value (vm.c 712-719)
pushTempRoot(s, value) ==
    [s EXCEPT !.tempRoots = [count |-> @.count + 1,
                             values |-> IF @.count >= 0 THEN Append(@.values, value)
                                        ELSE @.values]]

\* vm.tempRootCount-- (vm.c 721-723)
popTempRoot(s) ==
    [s EXCEPT !.tempRoots = [count |-> @.count - 1,
                             values |-> IF @.count >= 1
                                        THEN SubSeq(@.values, 1, @.count - 1)
                                        ELSE <<>>]]

----------------------------------------------------------------------------
(* runtimeError (vm.c 34-84) *)

FrameName(frame) ==
    IF Functions[frame.closure.fn].name = "" THEN "script"
    ELSE Functions[frame.closure.fn].name

\* The loop for (i = vm.frameCount - 1; i >= 0; i--) printing one line per frame
RECURSIVE StackTraceFrom(_, _)
StackTraceFrom(fs, i) ==
    IF i < 1 THEN <<>>
    ELSE <<FrameName(fs[i])>> \o StackTraceFrom(fs, i - 1)

StackTraceOuterFirst(fs) == [i \in 1..Len(fs) |-> FrameName(fs[i])]

StackTrace(fs) == StackTraceFrom(fs, Len(fs))

\* vm.c 36-63: the message is appended to vm.testFailures (when there is a list)
TestModeCapture(s, msg) ==
    IF ~s.testFailures.isNull
    THEN LET rooted == pushTempRoot(pushTempRoot(s, LIST_VAL(0)), STRING_VAL(msg))
         IN  popTempRoot(popTempRoot(
                 [rooted EXCEPT !.testFailures.items = Append(@, STRING_VAL(msg))]))
    ELSE s

\* vm.c 66-83: message, one line per frame, resetStack
PrintAndReset(s, msg) ==
    resetStack([s EXCEPT !.stderr = Append(@, [msg |-> msg, trace |-> StackTrace(s.frames)])])

runtimeError(s, msg) ==
    LET r == [s EXCEPT !.raised = Append(@, [msg |-> msg, frames |-> s.frames])]
    IN  IF r.testMode
        THEN TestModeCapture(r, msg)   \* return: "Don't reset stack, continue execution"
        ELSE PrintAndReset(r, msg)

----------------------------------------------------------------------------
(* call (vm.c 729-745): returns [ok, s] *)

Ret(ok, s) == [ok |-> ok, s |-> s]

ArityTooFew(closure, argCount) == argCount < Functions[closure.fn].arity

ArityMismatch(closure, argCount) == argCount # Functions[closure.fn].arity

callAboveArguments(s, closure, argCount) ==
    IF ArityMismatch(closure, argCount)
    THEN Ret(FALSE, runtimeError(s, Msg("Expected %d arguments but got %d.",
                 <<ToString(Functions[closure.fn].arity), ToString(argCount)>>)))
    ELSE IF frameCount(s) = FRAMES_MAX
    THEN Ret(FALSE, runtimeError(s, Msg("Stack overflow.", <<>>)))
    ELSE Ret(TRUE, [s EXCEPT !.frames =
                 Append(@, [closure |-> closure, ip |-> 1, slots |-> s.stackTop - 1])])

call(s, closure, argCount) ==
    IF ArityMismatch(closure, argCount)
    THEN Ret(FALSE, runtimeError(s, Msg("Expected %d arguments but got %d.",
                 <<ToString(Functions[closure.fn].arity), ToString(argCount)>>)))
    ELSE IF frameCount(s) = FRAMES_MAX
    THEN Ret(FALSE, runtimeError(s, Msg("Stack overflow.", <<>>)))
    ELSE Ret(TRUE, [s EXCEPT !.frames =
                 Append(@, [closure |-> closure, ip |-> 1,
                            slots |-> s.stackTop - argCount - 1])])

----------------------------------------------------------------------------
(* Native functions (vm.c 24-131, 496-598): [s, result].                   *)
(* args is the window vm.stackTop - argCount .. ; env is what the world    *)
(* outside the VM answers: whether the file exists, how long the input     *)
(* line is, and what a stale slot above the stack top holds.               *)

NRet(s, result) == [s |-> s, result |-> result]

NativeArgs(s, argCount) == [i \in 1..argCount |-> s.stack[s.stackTop - argCount + i]]

inputNative(s, env) ==
    IF env.inputLong
    THEN NRet(runtimeError(s, Msg("Input cannot be longer than 256 characters.", <<>>)), NIL_VAL)
    ELSE NRet(s, Str("line"))

readFileNative(s, args, env) ==
    IF ~IS_STRING(args[1])
    THEN NRet(runtimeError(s, Msg("Argument must be a string.", <<>>)), NIL_VAL)
    ELSE IF ~env.fileExists
    THEN NRet(runtimeError(s, Msg("Could not open file \"%s\".\n", <<args[1].chars.fmt>>)), NIL_VAL)
    ELSE NRet(s, Str("contents"))

numberNative(s, args) ==
    LET val == args[1]
    IN  IF IS_NUMBER(val) THEN NRet(s, val)
        ELSE IF IS_BOOL(val) THEN NRet(s, IF val.b THEN NUMBER_VAL(1) ELSE NUMBER_VAL(0))
        ELSE IF IS_STRING(val) THEN NRet(s, NUMBER_VAL(0))   \* strtod of a non-numeric text
        ELSE NRet(runtimeError(s, Msg("Given type cannot be converted to a number.", <<>>)),
                  ERROR_VAL)

enterTestModeNative(s) ==
    NRet(popTempRoot(pushTempRoot([s EXCEPT !.testMode = TRUE, !.testFailures = newList],
                                  LIST_VAL(0))),
         NIL_VAL)

exitTestModeNative(s) ==
    NRet([s EXCEPT !.testMode = FALSE, !.testFailures = NullList], NIL_VAL)

setCurrentTestNative(s, args) ==
    IF ~IS_STRING(args[1])
    THEN NRet(runtimeError(s, Msg("Test name must be a string.", <<>>)), NIL_VAL)
    ELSE NRet(s, NIL_VAL)

testFailedAlwaysFalse(s) == NRet(s, BOOL_VAL(FALSE))

testFailedNative(s) ==
    IF s.testFailures.isNull THEN NRet(s, BOOL_VAL(FALSE))
    ELSE NRet(s, BOOL_VAL(Len(s.testFailures.items) > 0))

getLastFailureNative(s) ==
    IF s.testFailures.isNull \/ Len(s.testFailures.items) = 0 THEN NRet(s, NIL_VAL)
    ELSE NRet(s, s.testFailures.items[Len(s.testFailures.items)])

clearLastFailureNative(s) ==
    IF ~s.testFailures.isNull /\ Len(s.testFailures.items) > 0
    THEN NRet([s EXCEPT !.testFailures.items = SubSeq(@, 1, Len(@) - 1)], NIL_VAL)
    ELSE NRet(s, NIL_VAL)

\* condition = *args: with argCount = 0 that slot is above the stack top (stale)
assertNative(s, argCount, args, env) ==
    LET condition == IF argCount >= 1 THEN args[1] ELSE env.stale
        message == IF argCount > 1 /\ IS_STRING(args[2]) THEN args[2].chars
                   ELSE Msg("Assertion failed", <<>>)
    IN  IF isFalsey(condition)
        THEN NRet(runtimeError(s, Msg("%s", <<message.fmt>>)), BOOL_VAL(FALSE))
        ELSE NRet(s, BOOL_VAL(TRUE))

\* valueToString: "%.0f" for a whole number
valueToString(value) ==
    CASE IS_BOOL(value) -> Str(IF value.b THEN "true" ELSE "false")
      [] IS_NIL(value) -> Str("nil")
      [] IS_NUMBER(value) -> Str(ToString(value.n))
      [] IS_STRING(value) -> value
      [] IS_ERROR(value) -> Str("[unknown]")
      [] OTHER -> Str("[object]")

assertEqualNative(s, args) ==
    IF ~valuesEqual(args[1], args[2])
    THEN LET rooted == pushTempRoot(pushTempRoot(s, valueToString(args[1])),
                                    valueToString(args[2]))
         IN  NRet(runtimeError(popTempRoot(popTempRoot(rooted)),
                      Msg("%s", <<"Expected values to be equal.\n  Expected: %s\n  Actual: %s">>)),
                  BOOL_VAL(FALSE))
    ELSE NRet(s, BOOL_VAL(TRUE))

\* The natives of the String, List and Map classes, with the arity initVM
\* gives them
PrimitiveArity ==
    [lengthNative |-> 1, stringSplitNative |-> 2, addNumberNative |-> 2,
     addListNative |-> 2, removeListNative |-> 2, listLengthNative |-> 1,
     listMapNative |-> 2,
     mapKeysNative |-> 1, mapValuesNative |-> 1, mapHasNative |-> 2,
     mapRemoveNative |-> 2, mapLengthNative |-> 1]

\* vm.stringClass->methods, vm.listClass->methods and vm.mapClass->methods
PrimitiveMethods ==
    [string |-> [length |-> NATIVE_VAL("lengthNative"), split |-> NATIVE_VAL("stringSplitNative")],
     number |-> [add |-> NATIVE_VAL("addNumberNative")],
     list |-> [add |-> NATIVE_VAL("addListNative"), remove |-> NATIVE_VAL("removeListNative"),
               length |-> NATIVE_VAL("listLengthNative"),
               map |-> NATIVE_VAL("listMapNative")],
     map |-> [keys |-> NATIVE_VAL("mapKeysNative"), values |-> NATIVE_VAL("mapValuesNative"),
              has |-> NATIVE_VAL("mapHasNative"), remove |-> NATIVE_VAL("mapRemoveNative"),
              length |-> NATIVE_VAL("mapLengthNative")]]

\* `int index = AS_NUMBER(value)`: the conversion of a double to int drops the
\* fraction.  A number that is not whole is n / den.
AsInt(value) ==
    IF "den" \notin DOMAIN value THEN value.n
    ELSE IF value.n < 0 THEN -((-value.n) \div value.den) ELSE value.n \div value.den

appendToList(s, id, value) == [s EXCEPT !.heap[id].items = Append(@, value)]

deleteFromList(s, id, index) ==
    LET items == s.heap[id].items
    IN  [s EXCEPT !.heap[id].items =
             [i \in 1..(Len(items) - 1) |-> IF i <= index THEN items[i] ELSE items[i + 1]]]

isValidListIndex(s, id, index) == ~(index < 0 \/ index > Len(s.heap[id].items) - 1)

\* args[1] is the argument, args[2] the receiver (pushed last by invokePrimitive)
\* An access through a pointer that has left its array (undefined
\* behaviour): env.ub is what the build makes of it.
UBOutcomes == {"CRASHED", "CORRUPT"}

Undefined(s, env) == [s EXCEPT !.status = env.ub]

addNumberNative(s, args) == NRet(s, NUMBER_VAL(args[1].n + args[2].n))

\* AS_LIST(args[1]) of a value that is not a list is a stray pointer
addListNative(s, args, env) ==
    IF ~IS_LIST(args[2]) THEN NRet(Undefined(s, env), NIL_VAL)
    ELSE NRet(appendToList(s, args[2].id, args[1]), args[2])

removeListNative(s, args) ==
    LET index == AsInt(args[1])
    IN  IF ~isValidListIndex(s, args[2].id, index)
        THEN NRet(runtimeError(s, Msg("Index out of bounds.", <<>>)), ERROR_VAL)
        ELSE NRet(deleteFromList(s, args[2].id, index), args[2])

listLengthNative(s, args, env) ==
    IF ~IS_LIST(args[1]) THEN NRet(Undefined(s, env), NIL_VAL)
    ELSE NRet(s, NUMBER_VAL(Len(s.heap[args[1].id].items)))

\* The keys of the entries of a table whose key is not NULL, in the order of
\* the entry array
RECURSIVE Entries(_)
Entries(table) ==
    IF DOMAIN table = {} THEN <<>>
    ELSE LET k == CHOOSE k \in DOMAIN table : TRUE
         IN  <<k>> \o Entries(tableDelete(table, k))

mapKeysNative(s, args) ==
    LET keys == Entries(s.heap[args[1].id].table)
        rooted == pushTempRoot(s, LIST_VAL(Len(s.heap) + 1))
    IN  NRet(popTempRoot([rooted EXCEPT !.heap =
                 Append(@, [items |-> [i \in 1..Len(keys) |-> Str(keys[i])]])]),
             LIST_VAL(Len(s.heap) + 1))

mapValuesNative(s, args) ==
    LET table == s.heap[args[1].id].table
        keys == Entries(table)
        rooted == pushTempRoot(s, LIST_VAL(Len(s.heap) + 1))
    IN  NRet(popTempRoot([rooted EXCEPT !.heap =
                 Append(@, [items |-> [i \in 1..Len(keys) |-> table[keys[i]]]])]),
             LIST_VAL(Len(s.heap) + 1))

mapHasNative(s, args) ==
    IF ~IS_STRING(args[1])
    THEN NRet(runtimeError(s, Msg("Map key must be a string.", <<>>)), ERROR_VAL)
    ELSE NRet(s, BOOL_VAL(tableHas(s.heap[args[2].id].table, args[1].chars.fmt)))

mapRemoveKeepsEntry(s, args) ==
    IF ~IS_STRING(args[1])
    THEN NRet(runtimeError(s, Msg("Map key must be a string.", <<>>)), ERROR_VAL)
    ELSE LET table == s.heap[args[2].id].table
             key == args[1].chars.fmt
         IN  IF tableHas(table, key) THEN NRet(s, tableGet(table, key)) ELSE NRet(s, NIL_VAL)

mapRemoveNative(s, args) ==
    IF ~IS_STRING(args[1])
    THEN NRet(runtimeError(s, Msg("Map key must be a string.", <<>>)), ERROR_VAL)
    ELSE LET table == s.heap[args[2].id].table
             key == args[1].chars.fmt
         IN  IF tableHas(table, key)
             THEN NRet([s EXCEPT !.heap[args[2].id].table = tableDelete(@, key)],
                       tableGet(table, key))
             ELSE NRet(s, NIL_VAL)

mapLengthNative(s, args) == NRet(s, NUMBER_VAL(Len(Entries(s.heap[args[1].id].table))))

lengthNative(s, args) == NRet(s, NUMBER_VAL(Len(args[1].chars.fmt)))

\* The loop of stringSplitNative for a delimiter that is not empty, from the
\* byte offset i with the current piece starting at wordStart.  memcmp is
\* given the length of the delimiter whatever is left of the string: `over`
\* tells that it was handed bytes past the terminating NUL.  Within the
\* string the NUL differs from every byte of the delimiter, so a comparison
\* that reaches it finds no match.  After a match the loop adds the length of
\* the delimiter to i and the `for` adds one more.
RECURSIVE splitLoop(_, _, _, _)
splitLoop(orig, d, i, wordStart) ==
    IF ~(i < Len(orig) + 1) THEN [pieces |-> <<>>, over |-> FALSE]
    ELSE LET over == i + Len(d) > Len(orig) + 1
             hit == \/ i + Len(d) <= Len(orig) /\ SubSeq(orig, i + 1, i + Len(d)) = d
                    \/ i = Len(orig)
             rest == IF hit THEN splitLoop(orig, d, i + Len(d) + 1, i + Len(d))
                     ELSE splitLoop(orig, d, i + 1, wordStart)
         IN  [pieces |-> IF hit THEN <<SubSeq(orig, wordStart + 1, i)>> \o rest.pieces
                         ELSE rest.pieces,
              over |-> over \/ rest.over]

\* The pieces stringSplitNative appends to its list
splitPieces(orig, d) ==
    IF d = "" THEN [i \in 1..Len(orig) |-> SubSeq(orig, i, i)]
    ELSE splitLoop(orig, d, 0, 0).pieces

\* Each piece is a temporary root while appendToList stores it
RECURSIVE appendRooted(_, _, _)
appendRooted(s, id, values) ==
    IF values = <<>> THEN s
    ELSE appendRooted(popTempRoot(appendToList(pushTempRoot(s, values[1]), id, values[1])),
                      id, Tail(values))

\* args[1] is the delimiter, args[2] the string (pushed last by
\* invokePrimitive).  A read past the end of the string is undefined: it
\* traps, or it yields bytes that cannot change the result of the comparison.
stringSplitNative(s, args, env) ==
    IF ~IS_STRING(args[1])
    THEN NRet(runtimeError(s, Msg("Can only split using a string.", <<>>)), ERROR_VAL)
    ELSE LET d == args[1].chars.fmt
             orig == args[2].chars.fmt
             pieces == splitPieces(orig, d)
             id == Len(s.heap) + 1
             list == pushTempRoot([s EXCEPT !.heap = Append(@, [items |-> <<>>])], LIST_VAL(id))
         IN  IF d # "" /\ splitLoop(orig, d, 0, 0).over /\ env.ub = "CRASHED"
             THEN NRet(Undefined(s, env), ERROR_VAL)
             ELSE NRet(popTempRoot(appendRooted(list, id, [i \in 1..Len(pieces) |->
                                                              Str(pieces[i])])),
                       LIST_VAL(id))

\* What a native hands back while it is inside a run() of its own: its
\* activation is the last of cstack, and callValue has not returned yet
INSIDE_RUN == [t |-> "running"]

listMapLoopKeepsRoot(s, c) ==
    LET items == s.heap[c.list].items
    IN  IF ~(c.index <= Len(items)) THEN NRet(popTempRoot(s), LIST_VAL(c.result))
        ELSE LET r == call(push(push(s, c.callee), items[c.index]), c.callee, 1)
             IN  IF ~r.ok THEN NRet(r.s, ERROR_VAL)
                 ELSE NRet([r.s EXCEPT !.cstack =
                                Append(@, [c EXCEPT !.initialFrameCount = frameCount(r.s)])],
                           INSIDE_RUN)

\* The loop of listMapNative from the item at c.index (counted from 1) up to
\* its next run(): the callback and the item are pushed and the callback
\* called.  list->count is read again at every turn.  The result list is a
\* temporary root until the native returns.
listMapLoop(s, c) ==
    LET items == s.heap[c.list].items
    IN  IF ~(c.index <= Len(items)) THEN NRet(popTempRoot(s), LIST_VAL(c.result))
        ELSE LET r == call(push(push(s, c.callee), items[c.index]), c.callee, 1)
             IN  IF ~r.ok THEN NRet(popTempRoot(r.s), ERROR_VAL)
                 ELSE NRet([r.s EXCEPT !.cstack =
                                Append(@, [c EXCEPT !.initialFrameCount = frameCount(r.s)])],
                           INSIDE_RUN)

\* listMapNative: args[1] is the callback, args[2] the list (the receiver)
listMapNative(s, args) ==
    IF ~IS_CLOSURE(args[1])
    THEN NRet(runtimeError(s, Msg("Argument to map must be a function.", <<>>)), ERROR_VAL)
    ELSE listMapLoop(pushTempRoot([s EXCEPT !.heap = Append(@, [items |-> <<>>])],
                                  LIST_VAL(Len(s.heap) + 1)),
                     [kind |-> "listMap", callee |-> args[1], list |-> args[2].id,
                      result |-> Len(s.heap) + 1, index |-> 1, initialFrameCount |-> 0,
                      tail |-> "", argCount |-> 0, ub |-> ""])

NativeFn(s, name, argCount, env) ==
    LET args == NativeArgs(s, argCount)
    IN  CASE name = "clock" -> NRet(s, NUMBER_VAL(0))
          [] name = "input" -> inputNative(s, env)
          [] name = "readFile" -> readFileNative(s, args, env)
          [] name = "number" -> numberNative(s, args)
          [] name = "__enterTestMode" -> enterTestModeNative(s)
          [] name = "__exitTestMode" -> exitTestModeNative(s)
          [] name = "__setCurrentTest" -> setCurrentTestNative(s, args)
          [] name = "__testFailed" -> testFailedNative(s)
          [] name = "__getLastFailure" -> getLastFailureNative(s)
          [] name = "__clearLastFailure" -> clearLastFailureNative(s)
          [] name = "assert" -> assertNative(s, argCount, args, env)
          [] name = "assertEqual" -> assertEqualNative(s, args)
          [] name = "lengthNative" -> lengthNative(s, args)
          [] name = "stringSplitNative" -> stringSplitNative(s, args, env)
          [] name = "addNumberNative" -> addNumberNative(s, args)
          [] name = "addListNative" -> addListNative(s, args, env)
          [] name = "removeListNative" -> removeListNative(s, args)
          [] name = "listLengthNative" -> listLengthNative(s, args, env)
          [] name = "listMapNative" -> listMapNative(s, args)
          [] name = "mapKeysNative" -> mapKeysNative(s, args)
          [] name = "mapValuesNative" -> mapValuesNative(s, args)
          [] name = "mapHasNative" -> mapHasNative(s, args)
          [] name = "mapRemoveNative" -> mapRemoveNative(s, args)
          [] name = "mapLengthNative" -> mapLengthNative(s, args)

----------------------------------------------------------------------------
(* callValue (vm.c 747-803), for the callee kinds of this model *)

\* push(result) of callValue: stackTop may be below the stack base here
pushResult(s, v, env) ==
    IF s.stackTop < 0 THEN Undefined([s EXCEPT !.stackTop = s.stackTop + 1], env)
    ELSE push(s, v)

\* The native r.s is inside run(): its activation remembers the case of
\* callValue to return to, and what a push below the stack base would do
InsideRun(s, tail, argCount, env) ==
    [s EXCEPT !.cstack[Len(s.cstack)] =
                  [@ EXCEPT !.tail = tail, !.argCount = argCount, !.ub = env.ub]]

\* callValue after the native returned r: the arguments and the callee are
\* dropped, and the result is pushed unless it is the error value
NativeReturn(r, argCount, env) ==
    IF r.result.t = "running" THEN Ret(TRUE, InsideRun(r.s, "OBJ_NATIVE", argCount, env))
    ELSE IF IS_ERROR(r.result) THEN Ret(FALSE, dropN(r.s, argCount + 1))
    ELSE Ret(TRUE, pushResult(dropN(r.s, argCount + 1), r.result, env))

callNative(s, callee, argCount, env) ==
    IF argCount < (NativeArity @@ PrimitiveArity)[callee.name]
    THEN Ret(FALSE, runtimeError(s, Msg("Expected at least %d arguments but got %d",
                 <<ToString((NativeArity @@ PrimitiveArity)[callee.name]), ToString(argCount)>>)))
    ELSE NativeReturn(NativeFn(s, callee.name, argCount, env), argCount, env)

\* case OBJ_BOUND_NATIVE, after the native returned r: the receiver, the
\* arguments and the callee are dropped and the result is pushed
BoundNativeReturn(r, argCount, env) ==
    IF r.result.t = "running" THEN Ret(TRUE, InsideRun(r.s, "OBJ_BOUND_NATIVE", argCount, env))
    ELSE Ret(TRUE, pushResult(dropN(r.s, argCount + 1), r.result, env))

\* The native of activation c returns r to the case of callValue that
\* called it
ReturnToCallValue(c, r) ==
    LET env == [fileExists |-> FALSE, inputLong |-> FALSE, stale |-> NIL_VAL, ub |-> c.ub]
    IN  IF c.tail = "OBJ_NATIVE" THEN NativeReturn(r, c.argCount, env)
        ELSE BoundNativeReturn(r, c.argCount, env)

\* case OBJ_BOUND_NATIVE: the receiver is pushed above the arguments and
\* counts as one of them
callBoundNative(s, callee, argCount, env) ==
    IF argCount + 1 < PrimitiveArity[callee.name]
    THEN Ret(FALSE, runtimeError(s, Msg("Expected at least %d arguments but got %d",
                 <<ToString(PrimitiveArity[callee.name]), ToString(argCount + 1)>>)))
    ELSE BoundNativeReturn(NativeFn(push(s, callee.receiver), callee.name, argCount + 1, env),
                           argCount + 1, env)

\* vm.initString
initString == "init"

\* case OBJ_BOUND_METHOD: the receiver replaces the callee in slot zero
callBoundMethod(s, callee, argCount) ==
    call([s EXCEPT !.stack[s.stackTop - argCount] = callee.receiver],
         callee.method, argCount)

callClassUnchecked(s, callee, argCount) ==
    LET id == Len(s.instances) + 1
        s1 == [s EXCEPT !.instances = Append(@, [klass |-> callee.id, fields |-> EmptyTable]),
                        !.stack[s.stackTop - argCount] = INSTANCE_VAL(id)]
        methods == s.classes[callee.id].methods
    IN  IF tableHas(methods, initString)
        THEN call(s1, tableGet(methods, initString), argCount)
        ELSE Ret(TRUE, s1)

\* case OBJ_CLASS: a new instance replaces the callee, then the initializer
callClass(s, callee, argCount) ==
    LET id == Len(s.instances) + 1
        s1 == [s EXCEPT !.instances = Append(@, [klass |-> callee.id, fields |-> EmptyTable]),
                        !.stack[s.stackTop - argCount] = INSTANCE_VAL(id)]
        methods == s.classes[callee.id].methods
    IN  IF tableHas(methods, initString)
        THEN call(s1, tableGet(methods, initString), argCount)
        ELSE IF argCount # 0
        THEN Ret(FALSE, runtimeError(s1, Msg("Expected 0 arguments but got %d.",
                     <<ToString(argCount)>>)))
        ELSE Ret(TRUE, s1)

callValue(s, callee, argCount, env) ==
    IF IS_BOUND_METHOD(callee) THEN callBoundMethod(s, callee, argCount)
    ELSE IF IS_CLASS(callee) THEN callClass(s, callee, argCount)
    ELSE IF IS_CLOSURE(callee) THEN call(s, callee, argCount)
    ELSE IF IS_NATIVE(callee) THEN callNative(s, callee, argCount, env)
    ELSE IF IS_BOUND_NATIVE(callee) THEN callBoundNative(s, callee, argCount, env)
    ELSE Ret(FALSE, runtimeError(s, Msg("Can only call functions and classes.", <<>>)))

\* invokeFromClass
invokeFromClass(s, klass, name, argCount) ==
    IF ~tableHas(s.classes[klass].methods, name)
    THEN Ret(FALSE, runtimeError(s, Msg("Undefined property '%s'.", <<name>>)))
    ELSE call(s, tableGet(s.classes[klass].methods, name), argCount)

invokeMethodFirst(s, name, argCount, env) ==
    LET receiver == peek(s, argCount)
    IN  IF IS_INSTANCE(receiver)
        THEN LET fields == s.instances[receiver.id].fields
                 klass == s.instances[receiver.id].klass
             IN  IF ~tableHas(s.classes[klass].methods, name) /\ tableHas(fields, name)
                 THEN callValue([s EXCEPT !.stack[s.stackTop - argCount] =
                                     tableGet(fields, name)],
                                tableGet(fields, name), argCount, env)
                 ELSE invokeFromClass(s, klass, name, argCount)
        ELSE Ret(FALSE, runtimeError(s, Msg("Undefined property '%s'.", <<name>>)))

\* invokePrimitive: the receiver is pushed above the arguments
invokePrimitive(s, klass, receiver, name, argCount, env) ==
    IF ~tableHas(PrimitiveMethods[klass], name)
    THEN Ret(FALSE, runtimeError(s, Msg("Undefined property '%s'.", <<name>>)))
    ELSE callValue(push(s, receiver), tableGet(PrimitiveMethods[klass], name), argCount + 1, env)

\* invoke, for a receiver that is not a number: a field of the
\* instance is called as a value, otherwise the method of its class
invoke(s, name, argCount, env) ==
    LET receiver == peek(s, argCount)
    IN  IF IS_INSTANCE(receiver)
        THEN LET fields == s.instances[receiver.id].fields
             IN  IF tableHas(fields, name)
                 THEN callValue([s EXCEPT !.stack[s.stackTop - argCount] =
                                     tableGet(fields, name)],
                                tableGet(fields, name), argCount, env)
                 ELSE invokeFromClass(s, s.instances[receiver.id].klass, name, argCount)
        ELSE IF IS_STRING(receiver) \/ IS_NUMBER(receiver) \/ IS_LIST(receiver)
                \/ IS_MAP(receiver)
        THEN invokePrimitive(s, receiver.t, receiver, name, argCount, env)
        ELSE Ret(FALSE, runtimeError(s, Msg("Undefined property '%s'.", <<name>>)))

\* bindNative: the receiver on top of the stack is replaced by the native
\* of its class bound to it
bindNative(s, klass, name) ==
    IF ~tableHas(PrimitiveMethods[klass], name)
    THEN Ret(FALSE, runtimeError(s, Msg("Undefined property '%s'.", <<name>>)))
    ELSE Ret(TRUE, push(pop(s), BOUND_NATIVE_VAL(peek(s, 0),
                                    tableGet(PrimitiveMethods[klass], name).name)))

\* bindMethod: the receiver on top of the stack is replaced by the bound method
bindMethod(s, klass, name) ==
    IF ~tableHas(s.classes[klass].methods, name)
    THEN Ret(FALSE, runtimeError(s, Msg("Undefined property '%s'.", <<name>>)))
    ELSE LET bound == BOUND_METHOD_VAL(peek(s, 0), tableGet(s.classes[klass].methods, name))
         IN  Ret(TRUE, push(pop(s), bound))

\* defineMethod
defineMethod(s, name) ==
    pop([s EXCEPT !.classes[peek(s, 1).id].methods = tableSet(@, name, peek(s, 0))])

----------------------------------------------------------------------------
(* Upvalues (vm.c 878-909) *)

captureUpvalueAtHead(s, local) ==
    [s |-> [s EXCEPT !.upvalues = Append(@, [open |-> TRUE, location |-> local,
                                             closed |-> NIL_VAL]),
                     !.openUpvalues = <<Len(s.upvalues) + 1>> \o @],
     id |-> Len(s.upvalues) + 1]

\* captureUpvalue: walk the open list (descending by location); reuse the
\* upvalue of this slot or insert a new one in order.  [s, id]
captureUpvalue(s, local) ==
    LET open == s.openUpvalues
        above == {i \in 1..Len(open) : s.upvalues[open[i]].location > local}
        k == Cardinality(above)            \* the walk stops after k entries
    IN  IF k < Len(open) /\ s.upvalues[open[k + 1]].location = local
        THEN [s |-> s, id |-> open[k + 1]]
        ELSE LET id == Len(s.upvalues) + 1
                 created == [open |-> TRUE, location |-> local, closed |-> NIL_VAL]
             IN  [s |-> [s EXCEPT !.upvalues = Append(@, created),
                                  !.openUpvalues = SubSeq(open, 1, k) \o <<id>>
                                                   \o SubSeq(open, k + 1, Len(open))],
                  id |-> id]

ClosedValueNil(s, u) == NIL_VAL

\* upvalue->closed = *upvalue->location
ClosedValue(s, u) == s.stack[s.upvalues[u].location + 1]

ClosesAbove(location, last) == location > last

ClosesAt(location, last) == location >= last

\* closeUpvalues(last): close every open upvalue whose slot is at or above last
RECURSIVE closeUpvalues(_, _)
closeUpvalues(s, last) ==
    IF s.openUpvalues # <<>> /\ ClosesAt(s.upvalues[Head(s.openUpvalues)].location, last)
    THEN LET u == Head(s.openUpvalues)
         IN  closeUpvalues(
                 [s EXCEPT !.upvalues[u] = [open |-> FALSE, location |-> -1,
                                            closed |-> ClosedValue(s, u)],
                           !.openUpvalues = Tail(@)],
                 last)
    ELSE s

\* *upvalue->location
UpvalueRead(s, u) ==
    IF s.upvalues[u].open THEN s.stack[s.upvalues[u].location + 1]
    ELSE s.upvalues[u].closed

\* *upvalue->location = v
UpvalueWrite(s, u, v) ==
    IF s.upvalues[u].open
    THEN [s EXCEPT !.stack[s.upvalues[u].location + 1] = v]
    ELSE [s EXCEPT !.upvalues[u].closed = v]

----------------------------------------------------------------------------
(* Module loading (vm.c 1549-1657) and the way a nested run() ends *)

Frame(s) == s.frames[Len(s.frames)]

setStackTop(s, n) == [s EXCEPT !.stack = SubSeq(s.stack, 1, n), !.stackTop = n]

\* The globals of a module body: the natives and classes of the saved table
FreshGlobals(saved) ==
    LET keep == {k \in DOMAIN saved : IS_NATIVE(saved[k]) \/ IS_CLASS(saved[k])}
    IN  [k \in keep |-> saved[k]]

IsCached(s, path) == tableHas(s.modules, path)

\* loadModule up to its call of run(): [done, module, s].  done with module 0
\* is the NULL return; ~done means the module body has been entered.
loadModule(s, path, instr, name, env) ==
    IF IsCached(s, path)
    THEN [done |-> TRUE, module |-> tableGet(s.modules, path), s |-> s]
    ELSE IF files[path].status # "ok"
    THEN [done |-> TRUE, module |-> 0, s |-> s]
    ELSE LET id == Len(s.moduleObjs) + 1
             module == [name |-> path, globals |-> EmptyTable, exports |-> EmptyTable]
             saved == [kind |-> "loadModule", instr |-> instr, path |-> path, name |-> name,
                       savedGlobals |-> s.globals, savedStackTop |-> s.stackTop,
                       savedModule |-> s.currentModule, module |-> id]
             s1 == [s EXCEPT !.moduleObjs = Append(@, module),
                             !.currentModule = id,
                             !.globals = FreshGlobals(s.globals),
                             !.nextObj = @ + 1]
             moduleClosure == CLOSURE_VAL(s1.nextObj, "module", id, <<>>)
             c == call(push(s1, moduleClosure), moduleClosure, 0)   \* result ignored
             entered == [c.s EXCEPT !.cstack = Append(@,
                             saved @@ [initialFrameCount |-> frameCount(c.s)])]
         IN  [done |-> FALSE, module |-> id,
              s |-> IF frameCount(c.s) = 0 THEN Undefined(entered, env)  \* run() reads frames[-1]
                    ELSE entered]

AllGlobalsCopied(module, instr, name) == module.globals

ExportsCopied(module, instr, name) ==
    IF instr = "IMPORT" THEN module.exports
    ELSE [k \in {name} |-> module.exports[name]]

\* The target table of an import: the importing closure's module globals, or vm.globals
ImportInto(s, entries) ==
    IF Frame(s).closure.module # 0
    THEN [s EXCEPT !.moduleObjs[Frame(s).closure.module].globals = tableAddAll(entries, @)]
    ELSE [s EXCEPT !.globals = tableAddAll(entries, @)]

InitialFrameCount(s) ==
    IF s.cstack = <<>> THEN 1 ELSE s.cstack[Len(s.cstack)].initialFrameCount

\* run() returns INTERPRET_RUNTIME_ERROR: to interpret(), or to the loadModule that
\* called it, which restores and returns NULL to OP_IMPORT / OP_IMPORT_FROM, whose
\* run() then fails in turn; or to listMapNative, which returns ERROR_VAL to
\* callValue.  When callValue then returns true (case OBJ_BOUND_NATIVE) the
\* calling run() goes on with its `frame` below vm.frameCount, the frames of
\* the callback being still counted: that execution is not followed further.
RECURSIVE RunError(_)
RunError(s) ==
    IF s.status # "RUNNING" THEN s
    ELSE IF s.cstack = <<>> THEN [s EXCEPT !.status = "INTERPRET_RUNTIME_ERROR"]
    ELSE IF s.cstack[Len(s.cstack)].kind = "listMap"
    THEN LET c == s.cstack[Len(s.cstack)]
             r == ReturnToCallValue(c, NRet(popTempRoot([s EXCEPT !.cstack =
                                                             SubSeq(@, 1, Len(@) - 1)]),
                                            ERROR_VAL))
         IN  IF ~r.ok THEN RunError(r.s)
             ELSE IF frameCount(r.s) # c.initialFrameCount - 1 /\ r.s.status = "RUNNING"
             THEN [r.s EXCEPT !.status = "FRAME_BELOW_FRAME_COUNT"]
             ELSE r.s
    ELSE LET c == s.cstack[Len(s.cstack)]
             restored == [setStackTop(s, c.savedStackTop) EXCEPT
                              !.globals = c.savedGlobals,
                              !.currentModule = c.savedModule,
                              !.cstack = SubSeq(@, 1, Len(@) - 1)]
         IN  RunError(runtimeError(restored, Msg("Failed to load module \"%s\".", <<c.path>>)))

\* The rest of OP_IMPORT / OP_IMPORT_FROM once loadModule has returned
ImportFinish(s, instr, path, name, module) ==
    IF module = 0
    THEN RunError(runtimeError(s, Msg("Failed to load module \"%s\".", <<path>>)))
    ELSE IF instr = "IMPORT_FROM" /\ ~tableHas(s.moduleObjs[module].exports, name)
    THEN RunError(runtimeError(s, Msg("Module '%s' has no export '%s'.", <<path, name>>)))
    ELSE ImportInto(s, ExportsCopied(s.moduleObjs[module], instr, name))

\* run() returns INTERPRET_OK (the result is on the stack): to interpret(), to
\* the tail of loadModule and of the import instruction that called it, or
\* to listMapNative, which appends the result and goes on with its loop.
RunOk(s) ==
    IF s.cstack = <<>> THEN [s EXCEPT !.status = "INTERPRET_OK"]
    ELSE IF s.cstack[Len(s.cstack)].kind = "listMap"
    THEN LET c == s.cstack[Len(s.cstack)]
             mapped == peek(s, 0)
             s1 == [appendToList(pop(s), c.result, mapped) EXCEPT
                        !.cstack = SubSeq(@, 1, Len(@) - 1)]
             r == listMapLoop(s1, [c EXCEPT !.index = @ + 1])
             back == ReturnToCallValue(c, r)
         IN  IF ~back.ok THEN RunError(back.s) ELSE back.s
    ELSE LET c == s.cstack[Len(s.cstack)]
             s1 == pop(s)
             s2 == [setStackTop(s1, c.savedStackTop) EXCEPT
                        !.moduleObjs[c.module].globals = tableAddAll(s1.globals, @),
                        !.globals = c.savedGlobals,
                        !.currentModule = c.savedModule,
                        !.modules = tableSet(@, c.path, c.module),
                        !.cstack = SubSeq(@, 1, Len(@) - 1)]
         IN  ImportFinish(s2, c.instr, c.path, c.name, c.module)

----------------------------------------------------------------------------
(* The opcode handlers of run() (vm.c 971-1547): the state after the handler *)

Fail(s) == RunError(s)

Do_GET_GLOBAL(s, name) ==
    LET m == Frame(s).closure.module
    IN  IF m # 0 /\ tableHas(s.moduleObjs[m].globals, name)
        THEN push(s, tableGet(s.moduleObjs[m].globals, name))
        ELSE IF ~tableHas(s.globals, name)
        THEN Fail(runtimeError(s, Msg("Undefined variable '%s'.", <<name>>)))
        ELSE push(s, tableGet(s.globals, name))

Do_SET_GLOBAL(s, name) ==
    LET m == Frame(s).closure.module
        v == peek(s, 0)
    IN  IF m # 0 /\ tableHas(s.moduleObjs[m].globals, name)
        THEN [s EXCEPT !.moduleObjs[m].globals = tableSet(@, name, v)]
        ELSE IF ~tableHas(s.globals, name)
        THEN \* the key was new: it is deleted again from both tables
             Fail(runtimeError(s, Msg("Undefined variable '%s'", <<name>>)))
        ELSE IF m # 0
        THEN [s EXCEPT !.moduleObjs[m].globals = tableSet(@, name, v),
                       !.globals = tableSet(@, name, v)]
        ELSE [s EXCEPT !.globals = tableSet(@, name, v)]

\* OP_CLOSURE: the closure inherits the module of the enclosing closure; each
\* upvalue is captured from the frame's slot or taken from the enclosing closure
RECURSIVE CaptureAll(_, _, _, _)
CaptureAll(s, descs, i, acc) ==
    IF i > Len(descs) THEN [s |-> s, ups |-> acc]
    ELSE IF descs[i].isLocal
    THEN LET c == captureUpvalue(s, Frame(s).slots + descs[i].index)
         IN  CaptureAll(c.s, descs, i + 1, Append(acc, c.id))
    ELSE CaptureAll(s, descs, i + 1, Append(acc, Frame(s).closure.upvalues[descs[i].index + 1]))

Do_CLOSURE(s, fn) ==
    LET c == CaptureAll(s, Functions[fn].ups, 1, <<>>)
        id == s.nextObj + 1
    IN  push([c.s EXCEPT !.nextObj = id],
             CLOSURE_VAL(id, fn, Frame(s).closure.module, c.ups))

\* run(): `if (!f(..)) return INTERPRET_RUNTIME_ERROR;` around a call that
\* returns false after a runtime error
Outcome(r) == IF ~r.ok THEN Fail(r.s) ELSE r.s

Do_CALL(s, argCount, env) == Outcome(callValue(s, peek(s, argCount), argCount, env))

\* OP_GET_PROPERTY on an instance, or on a value that has no properties
Do_GET_PROPERTY(s, name) ==
    IF IS_INSTANCE(peek(s, 0))
    THEN LET instance == s.instances[peek(s, 0).id]
         IN  IF tableHas(instance.fields, name)
             THEN push(pop(s), tableGet(instance.fields, name))
             ELSE Outcome(bindMethod(s, instance.klass, name))
    ELSE IF IS_STRING(peek(s, 0)) \/ IS_NUMBER(peek(s, 0)) \/ IS_LIST(peek(s, 0))
            \/ IS_MAP(peek(s, 0))
    THEN Outcome(bindNative(s, peek(s, 0).t, name))
    ELSE Fail(runtimeError(s, Msg("Only instances have properties", <<>>)))

Do_SET_PROPERTY(s, name) ==
    IF ~IS_INSTANCE(peek(s, 1))
    THEN Fail(runtimeError(s, Msg("Only instances have fields", <<>>)))
    ELSE LET value == peek(s, 0)
             s1 == [s EXCEPT !.instances[peek(s, 1).id].fields = tableSet(@, name, value)]
         IN  push(pop(pop(s1)), value)

Do_GET_SUPER(s, name) == Outcome(bindMethod(pop(s), peek(s, 0).id, name))

Do_INVOKE(s, name, argCount, env) == Outcome(invoke(s, name, argCount, env))

Do_SUPER_INVOKE(s, name, argCount) ==
    Outcome(invokeFromClass(pop(s), peek(s, 0).id, name, argCount))

inheritNothing(s) ==
    LET superclass == peek(s, 1)
    IN  IF ~IS_CLASS(superclass)
        THEN Fail(runtimeError(s, Msg("Superclass must be a class.", <<>>)))
        ELSE pop(s)

Do_INHERIT(s) ==
    LET superclass == peek(s, 1)
        subclass == peek(s, 0)
    IN  IF ~IS_CLASS(superclass)
        THEN Fail(runtimeError(s, Msg("Superclass must be a class.", <<>>)))
        ELSE pop([s EXCEPT !.classes[subclass.id].methods =
                      tableAddAll(s.classes[superclass.id].methods, @)])

Do_RETURN(s) ==
    LET result == peek(s, 0)
        frame == Frame(s)
        s1 == closeUpvalues(pop(s), frame.slots)
        s2 == [s1 EXCEPT !.frames = SubSeq(@, 1, Len(@) - 1)]
        s3 == push(setStackTop(s2, frame.slots), result)
    IN  IF frameCount(s2) < InitialFrameCount(s) THEN RunOk(s3) ELSE s3

Do_IMPORT(s, path, env) ==
    LET l == loadModule(s, path, "IMPORT", "", env)
    IN  IF l.done THEN ImportFinish(l.s, "IMPORT", path, "", l.module) ELSE l.s

Do_IMPORT_FROM(s, path, name, env) ==
    LET l == loadModule(s, path, "IMPORT_FROM", name, env)
    IN  IF l.done THEN ImportFinish(l.s, "IMPORT_FROM", path, name, l.module) ELSE l.s

ExportSourceImporter(s, name) == s.cstack[Len(s.cstack)].savedGlobals

ExportSource(s, name) == s.globals

exportToFirstLoading(s, name) ==
    IF s.currentModule = 0
    THEN Fail(runtimeError(s, Msg("Cannot export outside of module context.", <<>>)))
    ELSE [s EXCEPT !.moduleObjs[s.cstack[1].module].exports =
                       tableSet(@, name, tableGet(ExportSource(s, name), name))]

Do_EXPORT(s, name) ==
    IF s.currentModule = 0
    THEN Fail(runtimeError(s, Msg("Cannot export outside of module context.", <<>>)))
    ELSE IF ~tableHas(ExportSource(s, name), name)
    THEN Fail(runtimeError(s, Msg("Undefined variable '%s'.", <<name>>)))
    ELSE [s EXCEPT !.moduleObjs[s.currentModule].exports =
                       tableSet(@, name, tableGet(ExportSource(s, name), name))]

----------------------------------------------------------------------------
(* Construction: initVM (vm.c 616-687), then interpret (vm.c 1659-1671)    *)
(* pushes the script closure and calls it.                                 *)

ScriptClosure == CLOSURE_VAL(1, "script", 0, <<>>)

\* No C function is being stepped
NoActivation == [fn |-> "none"]

\* initVM: vm.tempRoots = NULL, vm.tempRootCount = 0
NoTempRoots == [count |-> 0, values |-> <<>>]

\* initTable(&vm.strings), and no string allocated.  held is the strings
\* that the program refers to (stack slots, constants, fields)
NoStrings == [objects |-> <<>>, table |-> {}, held |-> {}, collect |-> FALSE]

\* The front ends before the first token of a source file.  nest is the
\* statements whose bodies are open at the token read last, outermost first,
\* and seen the number of `break` statements read; loops and errors are the
\* compiler's loop frames (the pending breaks of each) and its compile
\* errors; inLoop, inFunction and diagnostics are the fields of the
\* language server's Analyzer.
StartOfSource ==
    [nest |-> <<>>, seen |-> 0, loops |-> <<>>, errors |-> <<>>,
     inLoop |-> 0, inFunction |-> 0, diagnostics |-> <<>>]

\* A script that starts with the declarations of the classes K and L
ClassesClosure == CLOSURE_VAL(1, "classes", 0, <<>>)

Obs(op, name, path, argc) == [op |-> op, name |-> name, path |-> path, argc |-> argc]

InitInterpreter(script) ==
    /\ stack = <<script>>
    /\ stackTop = 1
    /\ frames = <<[closure |-> script, ip |-> 1, slots |-> 0]>>
    /\ globals = [n \in DOMAIN NativeArity |-> NATIVE_VAL(n)]
    /\ modules = EmptyTable
    /\ moduleObjs = <<>>
    /\ currentModule = 0
    /\ upvalues = <<>>
    /\ openUpvalues = <<>>
    /\ nextObj = 1
    /\ classes = <<>>
    /\ instances = <<>>
    /\ heap = <<>>
    /\ testMode = FALSE
    /\ testFailures = NullList
    /\ cstack = <<>>
    /\ status = "RUNNING"
    /\ stderr = <<>>
    /\ stdout = <<>>
    /\ raised = <<>>
    /\ obs = Obs("START", "", "", 0)
    /\ protoList = <<>>
    /\ varValue = <<>>
    /\ exportSnapshot = EmptyTable
    /\ front = StartOfSource
    /\ strings = NoStrings
    /\ tempRoots = NoTempRoots

\* interpret() is entered from main: no C function is being stepped
InitWith(script) == InitInterpreter(script) /\ act = NoActivation

\* No module file exists
NoFiles == [p \in {"A", "B", "nofile"} |-> [status |-> "missing", code |-> <<>>]]

Init == InitWith(ScriptClosure) /\ files = NoFiles

----------------------------------------------------------------------------
(* The instructions a program may execute next.  The guards are the shape  *)
(* the compiler gives to bytecode (operands are on the stack, globals are  *)
(* defined at top level, a captured local is closed, not popped) and the   *)
(* bounds of the exploration.                                              *)

Running == status = "RUNNING"

Envs == [fileExists : BOOLEAN, inputLong : BOOLEAN,
         stale : {NIL_VAL, NUMBER_VAL(1)}, ub : UBOutcomes]

TopFrame == frames[Len(frames)]

\* The chunk of the running function: the code compiled from the file of a
\* module for a module body
Code ==
    IF TopFrame.closure.fn = "module"
    THEN files[moduleObjs[TopFrame.closure.module].name].code
    ELSE Functions[TopFrame.closure.fn].code

\* frame->ip is at an instruction of code that is fixed
Fixed == Running /\ TopFrame.ip <= Len(Code)

\* READ_BYTE(): the instruction at frame->ip is i
Decoded(i) == Fixed => Code[TopFrame.ip] = i

\* ... and frame->ip has moved past it
Fetched == IF Fixed THEN [VM EXCEPT !.frames[Len(frames)].ip = @ + 1] ELSE VM

\* Room for one more closure allocated by code that is not fixed
ClosuresRoom == Fixed \/ nextObj < MaxClosures + 1

\* values above the callee and the arguments of the running frame
Temps == stackTop - TopFrame.slots - 1 - Functions[TopFrame.closure.fn].arity

Captured(slot) == \E i \in 1..Len(openUpvalues) : upvalues[openUpvalues[i]].location = slot

FailuresRoom == Len(testFailures.items) < MaxFailures

\* An expression statement starts: nothing of the running function is above
\* its arguments, the value pushed next is the callee of a call or a declared value
StatementStart == Running /\ Temps = 0

\* A statement of a function with local functions starts: the values above
\* the arguments are the declared locals, the last of them a closure
ExprStart == Running /\ (Temps = 0 \/ IS_CLOSURE(stack[stackTop]))

\* The value an assignment stores is a number
NumberOnTop == Running /\ IS_NUMBER(stack[stackTop])

\* The native a CALL runs: the callee, when it is a native that passes the arity check
NativeRun(argCount) ==
    LET callee == stack[stackTop - argCount]
    IN  IF IS_NATIVE(callee) /\ ~(argCount < NativeArity[callee.name]) THEN callee.name ELSE ""

\* The failure list as the test-mode protocol describes it: emptied by
\* __enterTestMode and __exitTestMode, one element shorter after
\* __clearLastFailure, one longer per runtime error raised in test mode.
ProtoNext(s, o) ==
    LET base == CASE o.op = "CALL" /\ o.name \in {"__enterTestMode", "__exitTestMode"} -> <<>>
                  [] o.op = "CALL" /\ o.name = "__clearLastFailure" /\ protoList # <<>> ->
                         SubSeq(protoList, 1, Len(protoList) - 1)
                  [] OTHER -> protoList
    IN  IF testMode THEN base \o [i \in 1..Len(s.raised) |-> s.raised[i].msg] ELSE base

\* The variable behind each upvalue: its value when captured, then every
\* assignment to it, through its stack slot or through a closure.
VarNext(s, o) ==
    [u \in 1..Len(s.upvalues) |->
        IF u > Len(upvalues) THEN stack[s.upvalues[u].location + 1]
        ELSE IF o.op = "SET_UPVALUE" /\ TopFrame.closure.upvalues[o.argc + 1] = u
        THEN stack[stackTop]
        ELSE IF o.op = "SET_LOCAL" /\ upvalues[u].open
                /\ upvalues[u].location = TopFrame.slots + o.argc
        THEN stack[stackTop]
        ELSE varValue[u]]

\* The value the exported name had in the namespace of the module being loaded
SnapshotNext(s, o) ==
    IF o.op = "EXPORT" /\ s.raised = <<>>
    THEN tableSet(exportSnapshot, <<currentModule, o.name>>, globals[o.name])
    ELSE exportSnapshot

Commit(s, o) ==
    \E after \in {s} :
        /\ CommitVM(after)
        /\ files' = files
        /\ front' = front
        /\ act' = act
        /\ strings' = strings
        /\ obs' = o
        /\ protoList' = ProtoNext(after, o)
        /\ varValue' = VarNext(after, o)
        /\ exportSnapshot' = SnapshotNext(after, o)

OpConstant(v) ==
    /\ Running /\ Temps < MaxTemps
    /\ Decoded(Ins("CONSTANT", "", "", 0, v))
    /\ Commit(push(Fetched, v), Obs("CONSTANT", "", "", 0))

OpNil ==
    /\ Running /\ Temps < MaxTemps
    /\ Decoded(Ins("NIL", "", "", 0, NIL_VAL))
    /\ Commit(push(Fetched, NIL_VAL), Obs("NIL", "", "", 0))

OpPop ==
    /\ Running /\ Temps > 0 /\ ~Captured(stackTop - 1)
    /\ Decoded(Ins("POP", "", "", 0, NIL_VAL))
    /\ Commit(pop(Fetched), Obs("POP", "", "", 0))

OpGetGlobal(name) ==
    /\ Running /\ Temps < MaxTemps /\ FailuresRoom
    /\ Decoded(Ins("GET_GLOBAL", name, "", 0, NIL_VAL))
    /\ Commit(Do_GET_GLOBAL(Fetched, name), Obs("GET_GLOBAL", name, "", 0))

OpDefineGlobal(name) ==
    /\ Running /\ Temps > 0 /\ ~Captured(stackTop - 1)
    /\ Functions[TopFrame.closure.fn].name = ""
    /\ Decoded(Ins("DEFINE_GLOBAL", name, "", 0, NIL_VAL))
    /\ Commit(pop([Fetched EXCEPT !.globals = tableSet(@, name, stack[stackTop])]),
              Obs("DEFINE_GLOBAL", name, "", 0))

OpSetGlobal(name) ==
    /\ Running /\ Temps > 0 /\ FailuresRoom
    /\ Decoded(Ins("SET_GLOBAL", name, "", 0, NIL_VAL))
    /\ Commit(Do_SET_GLOBAL(Fetched, name), Obs("SET_GLOBAL", name, "", 0))

OpGetLocal(slot) ==
    /\ Running /\ Temps < MaxTemps
    /\ TopFrame.slots + slot < stackTop
    /\ Decoded(Ins("GET_LOCAL", "", "", slot, NIL_VAL))
    /\ Commit(push(Fetched, stack[TopFrame.slots + slot + 1]), Obs("GET_LOCAL", "", "", slot))

OpSetLocal(slot) ==
    /\ Running /\ Temps > 0
    /\ TopFrame.slots + slot < stackTop - 1
    /\ Decoded(Ins("SET_LOCAL", "", "", slot, NIL_VAL))
    /\ Commit([Fetched EXCEPT !.stack[TopFrame.slots + slot + 1] = stack[stackTop]],
              Obs("SET_LOCAL", "", "", slot))

OpGetUpvalue(slot) ==
    /\ Running /\ Temps < MaxTemps
    /\ slot < Len(TopFrame.closure.upvalues)
    /\ Decoded(Ins("GET_UPVALUE", "", "", slot, NIL_VAL))
    /\ Commit(push(Fetched, UpvalueRead(VM, TopFrame.closure.upvalues[slot + 1])),
              Obs("GET_UPVALUE", "", "", slot))

OpSetUpvalue(slot) ==
    /\ Running /\ Temps > 0
    /\ slot < Len(TopFrame.closure.upvalues)
    /\ Decoded(Ins("SET_UPVALUE", "", "", slot, NIL_VAL))
    /\ Commit(UpvalueWrite(Fetched, TopFrame.closure.upvalues[slot + 1], stack[stackTop]),
              Obs("SET_UPVALUE", "", "", slot))

\* fn is a function declared in the running function (parent): the locals it
\* captures exist
OpClosure(fn, parent) ==
    /\ Running /\ Temps < MaxTemps /\ ClosuresRoom
    /\ TopFrame.closure.fn = parent
    /\ \A i \in 1..Len(Functions[fn].ups) :
           /\ Functions[fn].ups[i].isLocal
           /\ 0 < Functions[fn].ups[i].index
           /\ TopFrame.slots + Functions[fn].ups[i].index < stackTop
           /\ (Captured(TopFrame.slots + Functions[fn].ups[i].index)
               \/ Len(upvalues) < MaxUpvalues)
    /\ Decoded(Ins("CLOSURE", fn, "", 0, NIL_VAL))
    /\ Commit(Do_CLOSURE(Fetched, fn), Obs("CLOSURE", fn, "", 0))

OpCloseUpvalue ==
    /\ Running /\ Temps > 0 /\ Captured(stackTop - 1)
    /\ Decoded(Ins("CLOSE_UPVALUE", "", "", 0, NIL_VAL))
    /\ Commit(pop(closeUpvalues(Fetched, stackTop - 1)), Obs("CLOSE_UPVALUE", "", "", 0))

\* a value that GET_PROPERTY and INVOKE treat as an instance or as a value
\* without properties (not a string, number, list, map or module)
PlainReceiver(v) == ~IS_STRING(v) /\ ~IS_NUMBER(v)

OpClass(name) ==
    /\ Running /\ Temps < MaxTemps
    /\ Decoded(Ins("CLASS", name, "", 0, NIL_VAL))
    /\ Commit(push([Fetched EXCEPT !.classes =
                          Append(@, [name |-> name, methods |-> EmptyTable])],
                    CLASS_VAL(Len(classes) + 1)),
              Obs("CLASS", name, "", 0))

\* OP_METHOD follows the closure of the method, pushed above the class
OpMethod ==
    /\ Running /\ Temps >= 2
    /\ IS_CLOSURE(stack[stackTop]) /\ IS_CLASS(stack[stackTop - 1])
    /\ LET name == Functions[stack[stackTop].fn].name
       IN  /\ Decoded(Ins("METHOD", name, "", 0, NIL_VAL))
           /\ Commit(defineMethod(Fetched, name), Obs("METHOD", name, "", 0))

\* OP_INHERIT follows the subclass, pushed above the superclass expression
OpInherit ==
    /\ Running /\ Temps >= 2 /\ FailuresRoom
    /\ IS_CLASS(stack[stackTop])
    /\ Decoded(Ins("INHERIT", "", "", 0, NIL_VAL))
    /\ Commit(Do_INHERIT(Fetched), Obs("INHERIT", "", "", 0))

OpGetProperty(name) ==
    /\ Running /\ Temps >= 1 /\ FailuresRoom
    /\ PlainReceiver(stack[stackTop])
    /\ Decoded(Ins("GET_PROPERTY", name, "", 0, NIL_VAL))
    /\ Commit(Do_GET_PROPERTY(Fetched, name), Obs("GET_PROPERTY", name, "", 0))

OpSetProperty(name) ==
    /\ Running /\ Temps >= 2 /\ FailuresRoom
    /\ Decoded(Ins("SET_PROPERTY", name, "", 0, NIL_VAL))
    /\ Commit(Do_SET_PROPERTY(Fetched, name), Obs("SET_PROPERTY", name, "", 0))

\* OP_GET_SUPER follows `this` and the superclass
OpGetSuper(name) ==
    /\ Running /\ Temps >= 2 /\ FailuresRoom
    /\ IS_CLASS(stack[stackTop])
    /\ Decoded(Ins("GET_SUPER", name, "", 0, NIL_VAL))
    /\ Commit(Do_GET_SUPER(Fetched, name), Obs("GET_SUPER", name, "", 0))

OpInvoke(name, argCount, depth) ==
    /\ Running /\ Temps >= argCount + 1 /\ FailuresRoom
    /\ (Fixed \/ Len(frames) < depth)
    /\ PlainReceiver(stack[stackTop - argCount])
    /\ Decoded(Ins("INVOKE", name, "", argCount, NIL_VAL))
    /\ \E env \in Envs :
           Commit(Do_INVOKE(Fetched, name, argCount, env), Obs("INVOKE", name, "", argCount))

\* OP_SUPER_INVOKE follows `this`, the arguments and the superclass
OpSuperInvoke(name, argCount, depth) ==
    /\ Running /\ Temps >= argCount + 2 /\ FailuresRoom
    /\ (Fixed \/ Len(frames) < depth)
    /\ IS_CLASS(stack[stackTop])
    /\ Decoded(Ins("SUPER_INVOKE", name, "", argCount, NIL_VAL))
    /\ Commit(Do_SUPER_INVOKE(Fetched, name, argCount),
              Obs("SUPER_INVOKE", name, "", argCount))

\* depth bounds the calls of code that is not fixed
OpCall(argCount, depth) ==
    /\ Running /\ Temps >= argCount + 1 /\ FailuresRoom
    /\ (IS_CLASS(stack[stackTop - argCount]) => Len(instances) < MaxInstances)
    /\ (Fixed \/ Len(frames) < depth)
    /\ Decoded(Ins("CALL", "", "", argCount, NIL_VAL))
    /\ \E env \in Envs :
           Commit(Do_CALL(Fetched, argCount, env),
                  Obs("CALL", NativeRun(argCount), "", argCount))

OpReturn ==
    /\ Running /\ Temps >= 1 /\ FailuresRoom
    /\ \A i \in 1..Len(openUpvalues) : upvalues[openUpvalues[i]].location < stackTop - 1
    /\ Decoded(Ins("RETURN", "", "", 0, NIL_VAL))
    /\ Commit(Do_RETURN(Fetched), Obs("RETURN", "", "", 0))

\* An import statement in code that is fixed: the loads nest as deep as the
\* code makes them
OpImportNested(path) ==
    /\ Fixed /\ FailuresRoom /\ Temps = 0
    /\ Decoded(Ins("IMPORT", "", path, 0, NIL_VAL))
    /\ \E env \in Envs : Commit(Do_IMPORT(Fetched, path, env), Obs("IMPORT", "", path, 0))

\* import statements and export declarations are top-level statements: no
\* temporary is on the stack
OpImport(path) ==
    /\ Running /\ FailuresRoom /\ Temps = 0
    /\ Len(frames) < MaxDepth /\ Len(moduleObjs) < MaxLoads
    /\ Decoded(Ins("IMPORT", "", path, 0, NIL_VAL))
    /\ \E env \in Envs : Commit(Do_IMPORT(Fetched, path, env), Obs("IMPORT", "", path, 0))

OpImportFrom(path, name) ==
    /\ Running /\ FailuresRoom /\ Temps = 0
    /\ Len(frames) < MaxDepth /\ Len(moduleObjs) < MaxLoads
    /\ Decoded(Ins("IMPORT_FROM", name, path, 0, NIL_VAL))
    /\ \E env \in Envs :
           Commit(Do_IMPORT_FROM(Fetched, path, name, env), Obs("IMPORT_FROM", name, path, 0))

OpExport(name) ==
    /\ Running /\ FailuresRoom /\ Temps = 0
    /\ Decoded(Ins("EXPORT", name, "", 0, NIL_VAL))
    /\ Commit(Do_EXPORT(Fetched, name), Obs("EXPORT", name, "", 0))

----------------------------------------------------------------------------
(* Programs that call natives and fail: errors and the test mode.  A global *)
(* is read as the callee of a call or as its first argument.               *)

NextErr ==
    \/ OpConstant(NUMBER_VAL(1))
    \/ OpNil
    \/ OpPop
    \/ \E n \in {"assert", "number", "readFile", "input", "__enterTestMode",
                 "__exitTestMode", "__testFailed", "__getLastFailure",
                 "__clearLastFailure", "undefined"} :
           Running /\ Temps <= 1 /\ OpGetGlobal(n)
    \/ \E argc \in 0..1 : OpCall(argc, MaxDepth)
    \/ OpReturn

SpecErr == Init /\ [][NextErr]_vars

----------------------------------------------------------------------------
(* Claims checked under SpecErr *)

\* C1: outside test mode, once a runtime error has been raised (a report is on
\* stderr) the VM has stopped: interpret returned INTERPRET_RUNTIME_ERROR, the
\* stack pointer is at the stack base and no frame is left.
C1_RuntimeErrorAborts ==
    stderr # <<>> =>
        /\ status = "INTERPRET_RUNTIME_ERROR"
        /\ stackTop = 0
        /\ frames = <<>>

\* C6: in test mode, a handler that raises a runtime error appends exactly one
\* message to the failure list, keeps the frames, and the script keeps running.
C6_TestModeErrorContinues ==
    [][(testMode /\ raised' # <<>>) =>
          /\ Len(testFailures'.items) = Len(testFailures.items) + 1
          /\ frames' = frames
          /\ status' = "RUNNING"]_vars

\* C7: the failure list of the VM is the list the test-mode protocol prescribes
\* (absent outside test mode); __testFailed() answers whether that list is
\* non-empty and __getLastFailure() its last message, or nil when it is empty.
C7_TestModeProtocol ==
    /\ testFailures.isNull => protoList = <<>>
    /\ ~testFailures.isNull =>
           testFailures.items = [i \in 1..Len(protoList) |-> STRING_VAL(protoList[i])]
    /\ (Running /\ obs.op = "CALL" /\ obs.name = "__testFailed") =>
           stack[stackTop] = BOOL_VAL(protoList # <<>>)
    /\ (Running /\ obs.op = "CALL" /\ obs.name = "__getLastFailure") =>
           stack[stackTop] = IF protoList = <<>> THEN NIL_VAL
                             ELSE STRING_VAL(protoList[Len(protoList)])

\* __getLastFailure() answered, in test mode, with the one recorded message
C7_Witness ==
    /\ Running /\ testMode
    /\ obs.op = "CALL" /\ obs.name = "__getLastFailure"
    /\ Len(protoList) = 1
    /\ stack[stackTop] = STRING_VAL(protoList[1])

----------------------------------------------------------------------------
(* Programs made of modules: a main script and the module bodies it loads *)

ModNames == {"V", "W"}

ModPaths == {"A", "B", "nofile"}

(* The module files the session may find on disk, as the code the compiler *)
(* emits for their statements:                                             *)
(*   lib       export var V = 1; var W = 1; V = 2;                         *)
(*   importsA  import "A"; export var V = 1;   (as A.cmel it imports itself) *)
(*   importsB  import V from "B"; export var V = 1;                        *)
(*   plain     export var V = 2; export var W = 1;                         *)
FileSystems ==
    LET Declare(n, v) ==
            <<Ins("CONSTANT", "", "", 0, v), Ins("DEFINE_GLOBAL", n, "", 0, NIL_VAL)>>
        ExportDeclare(n, v) == Declare(n, v) \o <<Ins("EXPORT", n, "", 0, NIL_VAL)>>
        Assign(n, v) ==
            <<Ins("CONSTANT", "", "", 0, v), Ins("SET_GLOBAL", n, "", 0, NIL_VAL),
              Ins("POP", "", "", 0, NIL_VAL)>>
        EndOfBody == <<Ins("NIL", "", "", 0, NIL_VAL), Ins("RETURN", "", "", 0, NIL_VAL)>>
        File(code) == [status |-> "ok", code |-> code \o EndOfBody]
        lib == File(ExportDeclare("V", NUMBER_VAL(1)) \o Declare("W", NUMBER_VAL(1))
                    \o Assign("V", NUMBER_VAL(2)))
        importsA == File(<<Ins("IMPORT", "", "A", 0, NIL_VAL)>>
                         \o ExportDeclare("V", NUMBER_VAL(1)))
        importsB == File(<<Ins("IMPORT_FROM", "V", "B", 0, NIL_VAL)>>
                         \o ExportDeclare("V", NUMBER_VAL(1)))
        plain == File(ExportDeclare("V", NUMBER_VAL(2)) \o ExportDeclare("W", NUMBER_VAL(1)))
    IN  [A : {lib, importsA, importsB},
         B : {plain, importsA},
         nofile : {[status |-> "missing", code |-> <<>>]}]

InitMod == InitWith(ScriptClosure) /\ files \in FileSystems

\* The main script is a sequence of declarations `var n = c;`, assignments and
\* import statements; the module bodies are the code of their files
NextMod ==
    \/ \E v \in {NUMBER_VAL(1), NUMBER_VAL(2)} : Running /\ Temps = 0 /\ OpConstant(v)
    \/ OpNil
    \/ OpPop
    \/ \E n \in ModNames : OpDefineGlobal(n)
    \/ \E n \in ModNames : OpSetGlobal(n)
    \/ \E n \in ModNames : OpExport(n)
    \/ \E p \in ModPaths : OpImport(p)
    \/ \E p \in ModPaths, n \in ModNames : OpImportFrom(p, n)
    \/ OpReturn

SpecMod == InitMod /\ [][NextMod]_vars

\* The module object that a finished import of path binds from
Loaded(path) == moduleObjs'[modules'[path]]

\* after is before plus the entries of exports the instruction asks for
OnlyExportsAdded(before, after, exports, instr, name) ==
    LET asked == IF instr = "IMPORT" THEN DOMAIN exports ELSE {name}
    IN  /\ asked \subseteq DOMAIN exports
        /\ DOMAIN after = DOMAIN before \cup asked
        /\ \A k \in DOMAIN after : after[k] = IF k \in asked THEN exports[k] ELSE before[k]

\* An import executed by the main script ends in this step: at once (the module
\* was cached, or could not be read) or with the end of the module body
ImportEffect(before, instr, path, name) ==
    IF raised' # <<>> THEN globals' = before
    ELSE OnlyExportsAdded(before, globals', Loaded(path).exports, instr, name)

\* C2: the body of the module at a path is executed at most once in a session:
\* no two module objects were created and run for the same path.
C2_BodyExecutedOnce ==
    \A i, j \in 1..Len(moduleObjs) : moduleObjs[i].name = moduleObjs[j].name => i = j

\* C3: an import of a path whose load is still in progress fails with a runtime
\* error instead of entering the body of that module again.
C3_CircularImportDetected ==
    [][(obs'.op \in {"IMPORT", "IMPORT_FROM"}
          /\ \E i \in 1..Len(cstack) : cstack[i].path = obs'.path)
       => (raised' # <<>> /\ Len(moduleObjs') = Len(moduleObjs))]_vars

\* C4: an import executed by the main script changes the main script's globals
\* only by binding exports of the module (all of them for IMPORT, the requested
\* name for IMPORT_FROM); a failed import, among them IMPORT_FROM of a name the
\* module does not export, binds nothing.
C4_ImportBindsOnlyExports ==
    [][/\ (cstack = <<>> /\ cstack' = <<>> /\ obs'.op \in {"IMPORT", "IMPORT_FROM"})
             => ImportEffect(globals, obs'.op, obs'.path, obs'.name)
       /\ (cstack # <<>> /\ cstack' = <<>>)
             => ImportEffect(cstack[1].savedGlobals, cstack[1].instr,
                             cstack[1].path, cstack[1].name)]_vars

\* the main script imported V from A, whose global W is not exported
C4_Witness ==
    /\ Running /\ cstack = <<>> /\ obs.op = "RETURN"
    /\ "A" \in DOMAIN modules
    /\ "V" \in DOMAIN moduleObjs[modules["A"]].exports
    /\ "W" \in DOMAIN moduleObjs[modules["A"]].globals
    /\ "W" \notin DOMAIN moduleObjs[modules["A"]].exports
    /\ "V" \in DOMAIN globals
    /\ "W" \notin DOMAIN globals

\* C5: every entry of a module's exports is the value the exported name had in
\* the namespace of the module body when its export instruction executed.
C5_ExportIsValueAtExport ==
    \A m \in 1..Len(moduleObjs) : \A n \in DOMAIN moduleObjs[m].exports :
        /\ <<m, n>> \in DOMAIN exportSnapshot
        /\ moduleObjs[m].exports[n] = exportSnapshot[<<m, n>>]

\* a cached module exports V with the value it had at the export, and V was
\* assigned another value afterwards
C5_Witness ==
    /\ Running /\ cstack = <<>>
    /\ "A" \in DOMAIN modules
    /\ "V" \in DOMAIN moduleObjs[modules["A"]].exports
    /\ moduleObjs[modules["A"]].exports["V"] # moduleObjs[modules["A"]].globals["V"]

----------------------------------------------------------------------------
(* Programs with closures: outer declares a local and the function inner,  *)
(* which captures it (README: `fun outer() { var x = ...; fun inner() ...`) *)
(* The variable holds numbers; its statements are `x = c;`, `return x;`,   *)
(* `return inner;`, `inner();` in any order and number.                    *)

NextUpv ==
    \/ \E v \in {NUMBER_VAL(1), NUMBER_VAL(2)} : ExprStart /\ OpConstant(v)
    \/ OpPop
    \/ StatementStart /\ OpClosure("outer", "script")
    \/ Running /\ Temps = 1 /\ OpClosure("inner", "outer")
    \/ ExprStart /\ OpGetLocal(1)
    \/ NumberOnTop /\ OpSetLocal(1)
    \/ ExprStart /\ OpGetUpvalue(0)
    \/ NumberOnTop /\ OpSetUpvalue(0)
    \/ OpCloseUpvalue
    \/ OpCall(0, MaxDepth)
    \/ OpReturn

SpecUpv == Init /\ [][NextUpv]_vars

\* C8: reading an upvalue yields the current value of the variable it captured:
\* the value of the local when the upvalue was closed, unless the variable was
\* assigned through a closure since, and then the value assigned last.
C8_UpvalueOutlivesFrame ==
    /\ \A u \in 1..Len(upvalues) : UpvalueRead(VM, u) = varValue[u]
    /\ (Running /\ obs.op = "GET_UPVALUE") =>
           stack[stackTop] = varValue[TopFrame.closure.upvalues[obs.argc + 1]]

\* inner, called by the script after outer has returned, has read the variable
\* of outer from the closed upvalue
C8_Witness ==
    /\ Running /\ obs.op = "GET_UPVALUE"
    /\ Len(frames) = 2 /\ TopFrame.closure.fn = "inner"
    /\ ~upvalues[TopFrame.closure.upvalues[1]].open
    /\ stack[stackTop] = NUMBER_VAL(2)

----------------------------------------------------------------------------
(* Programs with classes: K and L with the methods init(x) and m(), the    *)
(* class N without methods, their instances, bound methods and fields, and *)
(* the functions rec and g.  The script declares them and goes on with     *)
(* statements `K(..);`, `var o = K(..);`, `o.m(..);`, `o.m;`, `o.m = g;`,  *)
(* `o.m = nil;`, `g(..);`, `f();` in any order and number; the methods     *)
(* have bodies of `return nil;`, `return this;` and, in L, `super.m(..);`. *)
(* At most one argument is passed.  The script may enter test mode before  *)
(* it creates an instance.                                                 *)

ClsNames == {"K", "L", "N"}

ClsMethods == {"init", "m"}

\* The body of a method is running
InMethod == Running /\ TopFrame.closure.fn \in {"init", "m", "Lm"}

\* ... of a method of L, whose superclass is K
InSubclass == Running /\ TopFrame.closure.fn = "Lm"

\* The statements of the script that follow its declarations
InScript == Running /\ ~Fixed /\ TopFrame.closure.fn = "classes"

\* ... one of which starts
ScriptStatement == InScript /\ Temps = 0

\* The value of an expression is on the stack, alone
OneValue == Running /\ ~Fixed /\ Temps = 1

\* ... and it is an instance: the receiver of a property access
InstanceOnTop == OneValue /\ IS_INSTANCE(stack[stackTop])

\* `this` was pushed for a super call
ThisOnTop == InSubclass /\ Temps = 1 /\ stack[stackTop] = stack[TopFrame.slots + 1]

\* `this` and the arguments of a super call were pushed
SuperOperands ==
    /\ InSubclass /\ Temps \in 1..2
    /\ stack[stackTop - Temps + 1] = stack[TopFrame.slots + 1]
    /\ Temps = 2 => IS_NIL(stack[stackTop])

\* nil is the argument of a call or the value a method returns
NilOperand ==
    \/ InScript /\ Temps = 1 /\ ~IS_NIL(stack[stackTop])
    \/ InMethod /\ Temps = 0
    \/ ThisOnTop

\* The callee or receiver and the arguments of a call are all that is on the stack
CallOperands(argCount) == InScript /\ Temps = argCount + 1

\* The value assigned to a field is the function g, or nil
FieldValue ==
    /\ InScript /\ Temps = 2
    /\ \/ stack[stackTop] = globals["g"]
       \/ IS_NIL(stack[stackTop]) /\ IS_INSTANCE(stack[stackTop - 1])

\* ... or the script is `class N < clock {}`, whose superclass is no class
InitCls ==
    /\ InitWith(ClassesClosure) \/ InitWith(CLOSURE_VAL(1, "badsuper", 0, <<>>))
    /\ files = NoFiles

NextCls ==
    \/ (Fixed \/ NilOperand) /\ OpNil
    \/ (Fixed \/ OneValue) /\ OpPop
    \/ \E k \in ClsNames : Fixed /\ OpClass(k)
    \/ \E fn \in {"init", "m", "Lm", "rec", "g"} : Fixed /\ OpClosure(fn, "classes")
    \/ \E n \in ClsNames \cup {"f", "g"} : Fixed /\ OpDefineGlobal(n)
    \/ InScript /\ InstanceOnTop /\ OpDefineGlobal("o")
    \/ \E n \in ClsNames \cup {"o", "g"} : (Fixed \/ ScriptStatement) /\ OpGetGlobal(n)
    \/ (Fixed \/ (ScriptStatement /\ instances = <<>>)) /\ OpGetGlobal("f")
    \/ ScriptStatement /\ instances = <<>> /\ OpGetGlobal("__enterTestMode")
    \/ InScript /\ InstanceOnTop /\ OpGetGlobal("g")
    \/ SuperOperands /\ OpGetGlobal("K")
    \/ Fixed /\ OpGetGlobal("clock")
    \/ Fixed /\ OpMethod
    \/ Fixed /\ OpInherit
    \/ InMethod /\ StatementStart /\ OpGetLocal(0)
    \/ \E n \in ClsMethods : InScript /\ OneValue /\ OpGetProperty(n)
    \/ FieldValue /\ OpSetProperty("m")
    \/ \E n \in ClsMethods : InSubclass /\ Temps = 2 /\ OpGetSuper(n)
    \/ \E argc \in 0..1 : (Fixed \/ CallOperands(argc)) /\ OpCall(argc, MaxDepth)
    \/ \E n \in ClsMethods, argc \in 0..1 : CallOperands(argc) /\ OpInvoke(n, argc, MaxDepth)
    \/ \E n \in ClsMethods, argc \in 0..1 :
           InSubclass /\ Temps = argc + 2 /\ OpSuperInvoke(n, argc, MaxDepth)
    \/ (Fixed \/ OneValue) /\ OpReturn

SpecCls == InitCls /\ [][NextCls]_vars

----------------------------------------------------------------------------
(* Claims checked under SpecCls *)

\* The closure a call of the value v runs: v itself, the method of a bound
\* method, the initializer of a class; nil when it runs none
CallTarget(v) ==
    IF IS_CLOSURE(v) THEN v
    ELSE IF IS_BOUND_METHOD(v) THEN v.method
    ELSE IF IS_CLASS(v) /\ tableHas(classes[v.id].methods, initString)
    THEN tableGet(classes[v.id].methods, initString)
    ELSE NIL_VAL

\* The method name of class number k, nil when it has none
MethodTarget(k, name) ==
    IF tableHas(classes[k].methods, name) THEN tableGet(classes[k].methods, name) ELSE NIL_VAL

\* The closure called by the CALL, INVOKE or SUPER_INVOKE executed in this step
Callee ==
    LET receiver == stack[stackTop - obs'.argc]
    IN  CASE obs'.op = "CALL" -> CallTarget(receiver)
          [] obs'.op = "INVOKE" ->
                 IF ~IS_INSTANCE(receiver) THEN NIL_VAL
                 ELSE IF tableHas(instances[receiver.id].fields, obs'.name)
                 THEN CallTarget(tableGet(instances[receiver.id].fields, obs'.name))
                 ELSE MethodTarget(instances[receiver.id].klass, obs'.name)
          [] obs'.op = "SUPER_INVOKE" -> MethodTarget(stack[stackTop].id, obs'.name)
          [] OTHER -> NIL_VAL

CalledClosure == IS_CLOSURE(Callee)

\* The stack slot of the callee or receiver: below the arguments, which
\* SUPER_INVOKE finds below the superclass
CalleeSlot ==
    IF obs'.op = "SUPER_INVOKE" THEN stackTop - obs'.argc - 2 ELSE stackTop - obs'.argc - 1

\* The activations of a frame list: the closure and the slots of each frame
Activations(fs) == [i \in 1..Len(fs) |-> [closure |-> fs[i].closure, slots |-> fs[i].slots]]

NoFramePushed == frames' = <<>> \/ Activations(frames') = Activations(frames)

OneFramePushed ==
    /\ Len(frames') = Len(frames) + 1
    /\ Activations(SubSeq(frames', 1, Len(frames))) = Activations(frames)
    /\ frames'[Len(frames')].closure = Callee
    /\ frames'[Len(frames')].slots = CalleeSlot
    /\ raised' = <<>>

RaisedOnly(fmt, args) == Len(raised') = 1 /\ raised'[1].msg = [fmt |-> fmt, args |-> args]

ArityErrorRaised ==
    RaisedOnly("Expected %d arguments but got %d.",
               <<ToString(Functions[Callee.fn].arity), ToString(obs'.argc)>>)

\* C9 as stated: a call of a closure (directly, as a bound method, as a class
\* initializer, through INVOKE or SUPER_INVOKE) with an argument count other
\* than the arity raises `Expected <arity> arguments but got <argc>.` and
\* pushes no frame; a call with the matching count pushes exactly one frame.
C9_ArityDecidesTheCall ==
    [][CalledClosure =>
          IF obs'.argc # Functions[Callee.fn].arity
          THEN ArityErrorRaised /\ NoFramePushed
          ELSE OneFramePushed]_vars

\* C9, amended: ... a call with the matching count pushes exactly one frame
\* unless FRAMES_MAX frames are active, and then it raises `Stack overflow.`
\* and pushes no frame.
C9_ArityDecidesTheCallBelowFramesMax ==
    [][CalledClosure =>
          IF obs'.argc # Functions[Callee.fn].arity
          THEN ArityErrorRaised /\ NoFramePushed
          ELSE IF Len(frames) = FRAMES_MAX
          THEN RaisedOnly("Stack overflow.", <<>>) /\ NoFramePushed
          ELSE OneFramePushed]_vars

\* The method m() of an instance of L was invoked with one argument: the
\* arity error names the arity of L's own m, and no frame is left
C9_Witness ==
    /\ obs.op = "INVOKE" /\ obs.name = "m" /\ obs.argc = 1
    /\ Len(raised) = 1 /\ raised[1].msg.fmt = "Expected %d arguments but got %d."
    /\ raised[1].msg.args = <<"0", "1">>
    /\ IS_INSTANCE(stack[2]) /\ instances[stack[2].id].klass = 2
    /\ status = "INTERPRET_RUNTIME_ERROR" /\ frames = <<>>

\* C10: the report of a runtime error lists one entry per frame active when the
\* error was raised, the innermost first and the script last; for a call that
\* was rejected these are the frames of the caller, the callee has no entry.
C10_StackTraceInnermostFirst ==
    [][(~testMode /\ raised' # <<>>) =>
          /\ Len(stderr') = Len(stderr) + Len(raised')
          /\ \A j \in 1..Len(raised') :
                 LET trace == stderr'[Len(stderr) + j].trace
                     fs == raised'[j].frames
                     n == Len(fs)
                 IN  /\ Len(trace) = n
                     /\ \A i \in 1..n :
                            trace[i] = IF Functions[fs[n - i + 1].closure.fn].name = ""
                                       THEN "script"
                                       ELSE Functions[fs[n - i + 1].closure.fn].name
                     /\ n > 0 => trace[n] = "script"
          /\ CalledClosure =>
                 /\ Len(stderr'[Len(stderr) + 1].trace) = Len(frames)
                 /\ \A i \in 1..Len(frames) :
                        raised'[1].frames[i].closure = frames[i].closure]_vars

\* rec has called itself until FRAMES_MAX frames were active and its next call
\* was rejected: the report lists the FRAMES_MAX frames, rec first, script last
C10_Witness ==
    /\ obs.op = "CALL" /\ stderr # <<>>
    /\ stderr[1].msg.fmt = "Stack overflow."
    /\ Len(stderr[1].trace) = FRAMES_MAX
    /\ stderr[1].trace[1] = "rec"
    /\ stderr[1].trace[FRAMES_MAX - 1] = "rec"
    /\ stderr[1].trace[FRAMES_MAX] = "script"

\* C13: a CALL on a class creates a new instance of that class, without
\* fields.  When the class has an init method, the call is a call of init with
\* the instance as receiver: with argc other than init's arity it raises the
\* arity error and pushes no frame, otherwise it pushes the frame of init over
\* the instance.  When it has none, the call with argc = 0 leaves the instance
\* in place of the class as its result and pushes no frame, and with any other
\* argc it raises `Expected 0 arguments but got <argc>.`.
C13_ClassCallConstructs ==
    [][LET klass == stack[stackTop - obs'.argc]
           id == Len(instances) + 1
           constructed == stack'[stackTop - obs'.argc] = INSTANCE_VAL(id) /\ stackTop' = stackTop
       IN  (Running /\ obs'.op = "CALL" /\ IS_CLASS(klass)) =>
               /\ instances' = Append(instances, [klass |-> klass.id, fields |-> EmptyTable])
               /\ IF tableHas(classes[klass.id].methods, initString)
                  THEN /\ Callee = tableGet(classes[klass.id].methods, initString)
                       /\ IF obs'.argc # Functions[Callee.fn].arity
                          THEN ArityErrorRaised /\ NoFramePushed
                          ELSE Len(frames) < FRAMES_MAX => OneFramePushed /\ constructed
                  ELSE IF obs'.argc # 0
                  THEN /\ RaisedOnly("Expected 0 arguments but got %d.", <<ToString(obs'.argc)>>)
                       /\ NoFramePushed
                  ELSE /\ raised' = <<>> /\ constructed
                       /\ Activations(frames') = Activations(frames)]_vars

\* `N()` has just been evaluated by the script: the new instance of N, which
\* has no init, is the value of the call
C13_Witness ==
    /\ Running /\ obs.op = "CALL" /\ obs.argc = 0 /\ raised = <<>>
    /\ Len(frames) = 1 /\ IS_INSTANCE(stack[stackTop])
    /\ stack[stackTop].id = Len(instances)
    /\ instances[stack[stackTop].id] = [klass |-> 3, fields |-> EmptyTable]

\* C14: INVOKE of a name on an instance that has a field of that name calls
\* the value of the field, whether or not the class has a method of that
\* name: a closure gets its frame (or the arity error), and a value that is
\* not callable raises `Can only call functions and classes.`.  Without such
\* a field the method of the class gets the frame, with the receiver in slot
\* zero, and a name that is neither raises `Undefined property '<name>'.`.
C14_InvokeFieldBeforeMethod ==
    [][LET receiver == stack[stackTop - obs'.argc]
           fields == instances[receiver.id].fields
           methods == classes[instances[receiver.id].klass].methods
           value == tableGet(fields, obs'.name)
           called(closure) ==
               IF obs'.argc # Functions[closure.fn].arity
               THEN /\ NoFramePushed
                    /\ RaisedOnly("Expected %d arguments but got %d.",
                                  <<ToString(Functions[closure.fn].arity), ToString(obs'.argc)>>)
               ELSE Len(frames) < FRAMES_MAX =>
                        /\ Len(frames') = Len(frames) + 1 /\ raised' = <<>>
                        /\ frames'[Len(frames')].closure = closure
                        /\ frames'[Len(frames')].slots = stackTop - obs'.argc - 1
       IN  (Running /\ obs'.op = "INVOKE" /\ IS_INSTANCE(receiver)) =>
               IF tableHas(fields, obs'.name)
               THEN IF IS_CLOSURE(value)
                    THEN called(value) /\ (raised' = <<>> => stack'[stackTop - obs'.argc] = value)
                    ELSE IF IS_NIL(value)
                    THEN RaisedOnly("Can only call functions and classes.", <<>>) /\ NoFramePushed
                    ELSE FALSE
               ELSE IF tableHas(methods, obs'.name)
               THEN /\ called(tableGet(methods, obs'.name))
                    /\ raised' = <<>> => stack'[stackTop - obs'.argc] = receiver
               ELSE RaisedOnly("Undefined property '%s'.", <<obs'.name>>) /\ NoFramePushed]_vars

\* `o.m()` has entered g, the value of the field m of o, although the class
\* of o has a method m
C14_Witness ==
    /\ Running /\ obs.op = "INVOKE" /\ obs.name = "m" /\ obs.argc = 0
    /\ Len(frames) = 2 /\ TopFrame.closure = globals["g"]
    /\ stack[TopFrame.slots + 1] = globals["g"]
    /\ \E i \in 1..Len(instances) :
           /\ tableHas(instances[i].fields, "m")
           /\ tableGet(instances[i].fields, "m") = globals["g"]
           /\ tableHas(classes[instances[i].klass].methods, "m")

\* C15: OP_INHERIT gives the subclass every method the superclass has, and
\* changes no other class; with a superclass value that is not a class it
\* raises `Superclass must be a class.` and changes no class.  OP_METHOD sets
\* the method in the class it is declared in and in no other.  So, once
\* `class L < K { m() }` has executed, L has the init of K and its own m, and
\* a method invoked on an instance of L is the one in the table of L.
C15_InheritCopiesMethods ==
    /\ [][(Running /\ obs'.op = "INHERIT") =>
             LET superclass == stack[stackTop - 1]
                 subclass == stack[stackTop]
             IN  IF IS_CLASS(superclass)
                 THEN /\ raised' = <<>>
                      /\ \A n \in DOMAIN classes[superclass.id].methods :
                             /\ tableHas(classes'[subclass.id].methods, n)
                             /\ tableGet(classes'[subclass.id].methods, n) =
                                    tableGet(classes[superclass.id].methods, n)
                      /\ \A k \in 1..Len(classes) : k # subclass.id => classes'[k] = classes[k]
                 ELSE /\ RaisedOnly("Superclass must be a class.", <<>>)
                      /\ classes' = classes
                      /\ status' = "INTERPRET_RUNTIME_ERROR"]_vars
    /\ [][(Running /\ obs'.op = "METHOD") =>
             LET klass == stack[stackTop - 1].id
             IN  /\ tableGet(classes'[klass].methods, obs'.name) = stack[stackTop]
                 /\ \A n \in DOMAIN classes'[klass].methods \ {obs'.name} :
                        /\ tableHas(classes[klass].methods, n)
                        /\ classes'[klass].methods[n] = classes[klass].methods[n]
                 /\ \A k \in 1..Len(classes) : k # klass => classes'[k] = classes[k]]_vars
    /\ [][InScript' =>
             /\ DOMAIN classes'[2].methods = DOMAIN classes'[1].methods
             /\ classes'[2].methods["init"] = classes'[1].methods["init"]
             /\ classes'[2].methods["m"].fn = "Lm" /\ classes'[1].methods["m"].fn = "m"]_vars
    /\ [][LET receiver == stack[stackTop - obs'.argc]
          IN  (/\ Running /\ obs'.op = "INVOKE" /\ IS_INSTANCE(receiver)
               /\ instances[receiver.id].klass = 2
               /\ ~tableHas(instances[receiver.id].fields, obs'.name)
               /\ Len(frames') = Len(frames) + 1) =>
                  frames'[Len(frames')].closure = tableGet(classes[2].methods, obs'.name)]_vars

\* init, which L has from K, runs on an instance of L
C15_Witness ==
    /\ Running /\ obs.op = "INVOKE" /\ obs.name = "init" /\ obs.argc = 1
    /\ Len(frames) = 2 /\ TopFrame.closure.fn = "init"
    /\ IS_INSTANCE(stack[TopFrame.slots + 1])
    /\ instances[stack[TopFrame.slots + 1].id].klass = 2

\* The script `class N < clock {}` has stopped
C15_WitnessNotAClass ==
    /\ obs.op = "INHERIT" /\ status = "INTERPRET_RUNTIME_ERROR"
    /\ Len(raised) = 1 /\ raised[1].msg.fmt = "Superclass must be a class."

----------------------------------------------------------------------------
(* Claims about calls of natives, checked under SpecErr *)

\* The arity rule for natives as documented: a negative arity -n accepts n or
\* more arguments, any other arity accepts exactly that many
NativeAccepts(arity, argCount) ==
    IF arity < 0 THEN argCount >= -arity ELSE argCount = arity

\* C12: a CALL on a native runs the native iff the argument count is accepted
\* by the native's arity (at least |arity| for a negative arity, exactly arity
\* otherwise); a rejected call raises a runtime error and does not run it.
C12_NativeArityChecked ==
    [][LET callee == stack[stackTop - obs'.argc]
       IN  (Running /\ obs'.op = "CALL" /\ IS_NATIVE(callee)) =>
               IF NativeAccepts(NativeArity[callee.name], obs'.argc)
               THEN obs'.name = callee.name
               ELSE obs'.name = "" /\ raised' # <<>>]_vars

----------------------------------------------------------------------------
(* Programs that load modules until the frame array is full: A.cmel is     *)
(* `import "A"; export var V = 1;`, so every load of A starts another one, *)
(* one frame deeper; the script imports A, in test mode or not.            *)

InitLim ==
    /\ \E script \in {"limit", "limitT"} : InitWith(CLOSURE_VAL(1, script, 0, <<>>))
    /\ files \in {fs \in FileSystems : fs["A"] = fs["B"]}

NextLim ==
    \/ Fixed /\ OpGetGlobal("__enterTestMode")
    \/ Fixed /\ OpCall(0, MaxDepth)
    \/ Fixed /\ OpPop
    \/ OpImportNested("A")
    \/ Fixed /\ OpConstant(NUMBER_VAL(1))
    \/ Fixed /\ OpDefineGlobal("V")

SpecLim == InitLim /\ [][NextLim]_vars

\* The step tries to push a frame: it calls a closure with the right number
\* of arguments, or loads a module that is not cached
FramePushAttempted ==
    \/ CalledClosure /\ obs'.argc = Functions[Callee.fn].arity
    \/ /\ obs'.op \in {"IMPORT", "IMPORT_FROM"}
       /\ ~IsCached(VM, obs'.path) /\ files[obs'.path].status = "ok"

\* C11: no more than FRAMES_MAX frames are ever active; a step that tries to
\* push a frame while FRAMES_MAX frames are active raises `Stack overflow.`,
\* pushes no frame, and leaves the VM running or stopped by the runtime
\* error, whether the frame is that of a call or that of a module load.
C11_FrameLimit ==
    [][/\ Len(frames') <= FRAMES_MAX
       /\ (Len(frames) = FRAMES_MAX /\ FramePushAttempted) =>
              /\ raised' # <<>> /\ raised'[1].msg = [fmt |-> "Stack overflow.", args |-> <<>>]
              /\ NoFramePushed
              /\ status' \in {"RUNNING", "INTERPRET_RUNTIME_ERROR"}]_vars

----------------------------------------------------------------------------
(* OP_ADD (vm.c 1008-1020), concatenation (vm.c 922-966) and the string    *)
(* form of a value (value.c 92-152, valueToString above).  The characters  *)
(* of a string that is not a formatted message are the fmt of its chars.   *)
(* Numbers are whole.                                                      *)

\* concatenateWithConversion, and concatenate at its end
concatenateWithConversion(s) ==
    LET s1 == IF ~IS_STRING(peek(s, 0))
              THEN push(popTempRoot(pushTempRoot(pop(s), peek(s, 0))),
                        valueToString(peek(s, 0)))
              ELSE s
        s2 == IF ~IS_STRING(peek(s1, 1))
              THEN push(popTempRoot(
                            push(popTempRoot(pushTempRoot(pushTempRoot(pop(pop(s1)), peek(s1, 0)),
                                                          peek(s1, 1))),
                                 valueToString(peek(s1, 1)))),
                        peek(s1, 0))
              ELSE s1
        b == peek(s2, 0)
        a == peek(s2, 1)
    IN  push(pop(pop(s2)), Str(a.chars.fmt \o b.chars.fmt))

\* OP_ADD of the language this one derives from: two strings or two numbers
addStrict(s) ==
    IF IS_STRING(peek(s, 0)) /\ IS_STRING(peek(s, 1))
    THEN concatenateWithConversion(s)
    ELSE IF IS_NUMBER(peek(s, 0)) /\ IS_NUMBER(peek(s, 1))
    THEN push(pop(pop(s)), NUMBER_VAL(peek(s, 1).n + peek(s, 0).n))
    ELSE Fail(runtimeError(s, Msg("Operands must be two numbers or two strings.", <<>>)))

\* case OP_ADD
Do_ADD(s) ==
    IF IS_STRING(peek(s, 0)) \/ IS_STRING(peek(s, 1))
    THEN concatenateWithConversion(s)
    ELSE IF IS_NUMBER(peek(s, 0)) /\ IS_NUMBER(peek(s, 1))
    THEN push(pop(pop(s)), NUMBER_VAL(peek(s, 1).n + peek(s, 0).n))
    ELSE Fail(runtimeError(s, Msg("Operands must be two numbers or two strings.", <<>>)))

\* The sums and the strings computed stay within MaxSum and MaxChars
OpAdd ==
    /\ Running /\ Temps >= 2 /\ FailuresRoom
    /\ Decoded(Ins("ADD", "", "", 0, NIL_VAL))
    /\ LET r == Do_ADD(Fetched)
           v == r.stack[r.stackTop]
       IN  /\ (r.status = "RUNNING" /\ IS_NUMBER(v)) => v.n \in -MaxSum..MaxSum
           /\ (r.status = "RUNNING" /\ IS_STRING(v)) => Len(v.chars.fmt) <= MaxChars
           /\ Commit(r, Obs("ADD", "", "", 0))

\* Expression statements over +, with the operands 1, -2, "a", "", true,
\* false, nil and the native clock; an operator has two operands
NextAdd ==
    \/ \E v \in {NUMBER_VAL(1), NUMBER_VAL(-2), Str("a"), Str(""),
                  BOOL_VAL(TRUE), BOOL_VAL(FALSE)} : Running /\ Temps < 2 /\ OpConstant(v)
    \/ Running /\ Temps < 2 /\ OpNil
    \/ Running /\ Temps < 2 /\ OpGetGlobal("clock")
    \/ OpAdd
    \/ Running /\ Temps = 1 /\ OpPop

SpecAdd == Init /\ [][NextAdd]_vars

\* C16: ADD with a string operand never fails and replaces the two operands
\* by the string made of the form of the left one followed by the form of the
\* right one (a string is its own form, nil is `nil`, a boolean `true` or
\* `false`, a whole number its decimal digits); ADD of two numbers replaces
\* them by their sum; ADD of any other operands is the runtime error
\* `Operands must be two numbers or two strings.`.
C16_AddDispatch ==
    [][LET a == stack[stackTop - 1]
           b == stack[stackTop]
           form(v) == CASE IS_STRING(v) -> v.chars.fmt
                        [] IS_NIL(v) -> "nil"
                        [] IS_BOOL(v) /\ v.b -> "true"
                        [] IS_BOOL(v) /\ ~v.b -> "false"
                        [] IS_NUMBER(v) /\ v.n >= 0 -> ToString(v.n)
                        [] IS_NUMBER(v) /\ v.n < 0 -> "-" \o ToString(-v.n)
                        [] OTHER -> stack'[stackTop'].chars.fmt
           replaced == /\ stackTop' = stackTop - 1 /\ raised' = <<>> /\ Running'
                       /\ SubSeq(stack', 1, stackTop' - 1) = SubSeq(stack, 1, stackTop - 2)
       IN  (Running /\ obs'.op = "ADD") =>
               IF IS_STRING(a) \/ IS_STRING(b)
               THEN /\ replaced /\ IS_STRING(stack'[stackTop'])
                    /\ (~IS_NATIVE(a) /\ ~IS_NATIVE(b)) =>
                           stack'[stackTop'] = Str(form(a) \o form(b))
               ELSE IF IS_NUMBER(a) /\ IS_NUMBER(b)
               THEN replaced /\ stack'[stackTop'] = NUMBER_VAL(a.n + b.n)
               ELSE /\ RaisedOnly("Operands must be two numbers or two strings.", <<>>)
                    /\ status' = "INTERPRET_RUNTIME_ERROR"]_vars

\* `-2 + "a"` has been evaluated
C16_Witness ==
    /\ Running /\ obs.op = "ADD" /\ stackTop = 2
    /\ stack[stackTop] = Str("-2a")

----------------------------------------------------------------------------
(* Lists and maps: OP_BUILD_LIST, OP_BUILD_MAP, OP_INDEX and OP_STORE      *)
(* (vm.c 1331-1456)                                                        *)

\* case OP_BUILD_LIST: the items are below the top, the first one deepest
Do_BUILD_LIST(s, itemCount) ==
    LET items == [i \in 1..itemCount |-> s.stack[s.stackTop - itemCount + i]]
        s1 == [s EXCEPT !.heap = Append(@, [items |-> items])]
    IN  push(dropN(s1, itemCount), LIST_VAL(Len(s.heap) + 1))

\* case OP_BUILD_MAP: the pairs are set in order, the first one deepest, so
\* that the last pair with a key gives the key its value
Do_BUILD_MAP(s, itemCount) ==
    LET key(j) == s.stack[s.stackTop - 2 * itemCount + 2 * j - 1]
        value(j) == s.stack[s.stackTop - 2 * itemCount + 2 * j]
        last(k) == CHOOSE j \in 1..itemCount :
                       /\ key(j).chars.fmt = k
                       /\ \A i \in (j + 1)..itemCount : key(i).chars.fmt # k
        table == [k \in {key(j).chars.fmt : j \in 1..itemCount} |-> value(last(k))]
        s1 == [s EXCEPT !.heap = Append(@, [table |-> table])]
    IN  IF \E j \in 1..itemCount : ~IS_STRING(key(j))
        THEN Fail(runtimeError(s, Msg("Map keys must be strings.", <<>>)))
        ELSE push(dropN(s1, 2 * itemCount), MAP_VAL(Len(s.heap) + 1))

\* case OP_INDEX
Do_INDEX(s) ==
    LET indexVal == peek(s, 0)
        obj == peek(s, 1)
        s1 == pop(pop(s))
    IN  IF IS_LIST(obj)
        THEN IF ~IS_NUMBER(indexVal)
             THEN Fail(runtimeError(s1, Msg("List index must be a number.", <<>>)))
             ELSE IF ~isValidListIndex(s1, obj.id, AsInt(indexVal))
             THEN Fail(runtimeError(s1, Msg("List index out of range.", <<>>)))
             ELSE push(s1, s1.heap[obj.id].items[AsInt(indexVal) + 1])
        ELSE IF IS_MAP(obj)
        THEN IF ~IS_STRING(indexVal)
             THEN Fail(runtimeError(s1, Msg("Map key must be a string.", <<>>)))
             ELSE IF tableHas(s1.heap[obj.id].table, indexVal.chars.fmt)
             THEN push(s1, tableGet(s1.heap[obj.id].table, indexVal.chars.fmt))
             ELSE push(s1, NIL_VAL)
        ELSE Fail(runtimeError(s1, Msg("Can only index into lists and maps.", <<>>)))

\* case OP_STORE
Do_STORE(s) ==
    LET item == peek(s, 0)
        indexVal == peek(s, 1)
        obj == peek(s, 2)
        s1 == pop(pop(pop(s)))
    IN  IF IS_LIST(obj)
        THEN IF ~IS_NUMBER(indexVal)
             THEN Fail(runtimeError(s1, Msg("List index must be a number.", <<>>)))
             ELSE IF ~isValidListIndex(s1, obj.id, AsInt(indexVal))
             THEN Fail(runtimeError(s1, Msg("List index out of range.", <<>>)))
             ELSE push([s1 EXCEPT !.heap[obj.id].items[AsInt(indexVal) + 1] = item], item)
        ELSE IF IS_MAP(obj)
        THEN IF ~IS_STRING(indexVal)
             THEN Fail(runtimeError(s1, Msg("Map key must be a string.", <<>>)))
             ELSE push([s1 EXCEPT !.heap[obj.id].table = tableSet(@, indexVal.chars.fmt, item)],
                       item)
        ELSE Fail(runtimeError(s1, Msg("Can only store values in lists and maps.", <<>>)))

OpBuildList(itemCount) ==
    /\ Running /\ Temps >= itemCount /\ Len(heap) < MaxObjects
    /\ Decoded(Ins("BUILD_LIST", "", "", itemCount, NIL_VAL))
    /\ Commit(Do_BUILD_LIST(Fetched, itemCount), Obs("BUILD_LIST", "", "", itemCount))

OpBuildMap(itemCount) ==
    /\ Running /\ Temps >= 2 * itemCount /\ Len(heap) < MaxObjects /\ FailuresRoom
    /\ Decoded(Ins("BUILD_MAP", "", "", itemCount, NIL_VAL))
    /\ Commit(Do_BUILD_MAP(Fetched, itemCount), Obs("BUILD_MAP", "", "", itemCount))

OpIndex ==
    /\ Running /\ Temps >= 2 /\ FailuresRoom
    /\ Decoded(Ins("INDEX", "", "", 0, NIL_VAL))
    /\ Commit(Do_INDEX(Fetched), Obs("INDEX", "", "", 0))

OpStore ==
    /\ Running /\ Temps >= 3 /\ FailuresRoom
    /\ Decoded(Ins("STORE", "", "", 0, NIL_VAL))
    /\ Commit(Do_STORE(Fetched), Obs("STORE", "", "", 0))

----------------------------------------------------------------------------
(* Programs with maps: statements `var m = {k: v, ..};` with as many pairs *)
(* as MaxTemps allows, `m[k] = v;`, `m[k];`, `m.remove(k);`, `m.has(k);`,      *)
(* `m.keys();`, `m.values();`, `m.length();` in any order and number, with *)
(* the keys "a" and "b" and the values 1, 2 and nil.  The literal is the   *)
(* first statement, and the only one that makes a map.                     *)

MapKeys == {"a", "b"}

\* The first value of the statement being evaluated
First == stack[stackTop - Temps + 1]

\* The map literal is being evaluated: a key is due, or a value
KeyDue ==
    /\ Running /\ Temps % 2 = 0
    /\ IF Temps = 0 THEN heap = <<>> ELSE IS_STRING(First)
ValueDue == Running /\ Temps % 2 = 1 /\ IS_STRING(First)

\* The map m and n more operands are on the stack
MapOperands(n) == Running /\ Temps = n + 1 /\ IS_MAP(First)

NextMap ==
    \/ \E k \in MapKeys : (KeyDue \/ MapOperands(0)) /\ OpConstant(Str(k))
    \/ \E v \in {NUMBER_VAL(1), NUMBER_VAL(2)} : (ValueDue \/ MapOperands(1)) /\ OpConstant(v)
    \/ (ValueDue \/ MapOperands(1)) /\ OpNil
    \/ \E n \in 0..(MaxTemps \div 2) : KeyDue /\ Temps = 2 * n /\ OpBuildMap(n)
    \/ MapOperands(0) /\ OpDefineGlobal("m")
    \/ Running /\ Temps = 0 /\ heap # <<>> /\ OpGetGlobal("m")
    \/ MapOperands(1) /\ IS_STRING(stack[stackTop]) /\ OpIndex
    \/ MapOperands(2) /\ OpStore
    \/ \E n \in {"keys", "values", "length"} :
           MapOperands(0) /\ Len(heap) < MaxObjects /\ OpInvoke(n, 0, MaxDepth)
    \/ \E n \in {"has", "remove"} :
           MapOperands(1) /\ IS_STRING(stack[stackTop]) /\ OpInvoke(n, 1, MaxDepth)
    \/ Running /\ Temps = 1 /\ ~IS_STRING(First) /\ OpPop

SpecMap == Init /\ [][NextMap]_vars

\* What a program gets from the natives and from OP_INDEX for the map
\* number id and the key k, in the state s
MapIds(s) == {id \in 1..Len(s.heap) : "table" \in DOMAIN s.heap[id]}

Has(s, id, k) == mapHasNative(s, <<Str(k), MAP_VAL(id)>>).result

Keys(s, id) ==
    LET r == mapKeysNative(s, <<MAP_VAL(id)>>)
    IN  r.s.heap[r.result.id].items

Values(s, id) ==
    LET r == mapValuesNative(s, <<MAP_VAL(id)>>)
    IN  r.s.heap[r.result.id].items

Length(s, id) == mapLengthNative(s, <<MAP_VAL(id)>>).result

Index(s, id, k) == peek(Do_INDEX(push(push(s, MAP_VAL(id)), Str(k))), 0)

\* The keys asked about: those the programs use, and one they never store
AskedKeys == MapKeys \cup {"c"}

\* C17: for every map and every key, has(k) is true iff k is among keys(),
\* and length() is the number of keys() and of values(); m[k] is the value
\* stored last under k and nil when there is none: a literal gives each key
\* the value of its last pair, a store gives the key the value stored, a
\* remove returns the value of the key and leaves it without one, and nothing
\* else changes the value of any key of any map.
C17_MapConsistent ==
    [][\A before \in {VM}, after \in {VM'} :
        /\ \A id \in MapIds(after) :
               LET keys == Keys(after, id)
                   values == Values(after, id)
               IN  /\ \A k \in AskedKeys :
                          Has(after, id, k) = BOOL_VAL(\E i \in 1..Len(keys) : keys[i] = Str(k))
                   /\ Length(after, id) = NUMBER_VAL(Len(keys))
                   /\ Len(values) = Len(keys)
                   /\ \A i \in 1..Len(keys), k \in AskedKeys :
                          keys[i] = Str(k) => values[i] = Index(after, id, k)
        /\ Running =>
               LET stored == IF obs'.op = "STORE" THEN stack[stackTop - 2].id
                             ELSE IF obs'.op = "INVOKE" /\ obs'.name = "remove"
                             THEN stack[stackTop - 1].id
                             ELSE 0
                   key == IF obs'.op = "STORE" THEN stack[stackTop - 1].chars.fmt
                          ELSE stack[stackTop].chars.fmt
                   pairs == obs'.argc
                   pairKey(j) == stack[stackTop - 2 * pairs + 2 * j - 1].chars.fmt
                   pairValue(j) == stack[stackTop - 2 * pairs + 2 * j]
               IN  /\ \A id \in MapIds(before), k \in AskedKeys :
                          Index(after, id, k) =
                              IF id = stored /\ k = key
                              THEN IF obs'.op = "STORE" THEN stack[stackTop] ELSE NIL_VAL
                              ELSE Index(before, id, k)
                   /\ (obs'.op = "INVOKE" /\ obs'.name = "remove") =>
                          stack'[stackTop'] = Index(before, stored, key)
                   /\ obs'.op = "BUILD_MAP" =>
                          /\ MapIds(after) = MapIds(before) \cup {Len(heap) + 1}
                          /\ \A k \in AskedKeys :
                                 Index(after, Len(heap) + 1, k) =
                                     IF \E j \in 1..pairs : pairKey(j) = k
                                     THEN pairValue(CHOOSE j \in 1..pairs :
                                              /\ pairKey(j) = k
                                              /\ \A i \in (j + 1)..pairs : pairKey(i) # k)
                                     ELSE NIL_VAL
                   /\ obs'.op # "BUILD_MAP" => MapIds(after) = MapIds(before)]_vars

\* `m.remove("a");` has returned 1, the value of "a" in a map that keeps the
\* key "b"
C17_Witness ==
    /\ Running /\ obs.op = "INVOKE" /\ obs.name = "remove"
    /\ stack[stackTop] = NUMBER_VAL(1)
    /\ \E id \in MapIds(VM) : Keys(VM, id) = <<Str("b")>> /\ Index(VM, id, "a") = NIL_VAL

----------------------------------------------------------------------------
(* Programs with a list: `var l = [..];` with the items 1 and 2, then the  *)
(* statements `l.add(v);`, `l.remove(i);` and `l.length();` in any order   *)
(* and number, with v among 1 and 2 and i among 0, 1, 2, -1 and -0.5.      *)

ListIndexes == {NUMBER_VAL(0), NUMBER_VAL(1), NUMBER_VAL(2), NUMBER_VAL(-1), FRACTION_VAL(-1, 2)}

\* The list l and n more operands are on the stack
ListOperands(n) == Running /\ Temps = n + 1 /\ IS_LIST(First)

NextLst ==
    \/ \E v \in {NUMBER_VAL(1), NUMBER_VAL(2)} : Running /\ heap = <<>> /\ OpConstant(v)
    \/ \E n \in 0..MaxTemps : Running /\ heap = <<>> /\ Temps = n /\ OpBuildList(n)
    \/ ListOperands(0) /\ OpDefineGlobal("l")
    \/ Running /\ Temps = 0 /\ heap # <<>> /\ OpGetGlobal("l")
    \/ \E v \in ListIndexes : ListOperands(0) /\ OpConstant(v)
    \/ /\ ListOperands(1) /\ stack[stackTop] \in {NUMBER_VAL(1), NUMBER_VAL(2)}
       /\ Len(heap[First.id].items) < MaxItems
       /\ OpInvoke("add", 1, MaxDepth)
    \/ ListOperands(1) /\ OpInvoke("remove", 1, MaxDepth)
    \/ ListOperands(0) /\ OpInvoke("length", 0, MaxDepth)
    \/ Running /\ Temps = 1 /\ heap # <<>> /\ OpPop

SpecLst == Init /\ [][NextLst]_vars

\* C18: `l.add(v)` makes v the new last element of l and evaluates to l;
\* `l.remove(i)` with 0 <= i < length takes out the element at i, keeps the
\* others in order and evaluates to l; with any other i it raises
\* `Index out of bounds.` and l keeps its elements.
C18_ListMutation ==
    [][LET list == stack[stackTop - 1]
           arg == stack[stackTop]
           items == heap[list.id].items
           whole == "den" \notin DOMAIN arg
           inRange == IF whole THEN 0 <= arg.n /\ arg.n < Len(items)
                      ELSE 0 <= arg.n /\ arg.n < Len(items) * arg.den
           same == stackTop' = stackTop - 1 /\ stack'[stackTop'] = list /\ raised' = <<>>
       IN  (Running /\ obs'.op = "INVOKE" /\ obs'.argc = 1 /\ IS_LIST(list)) =>
               /\ obs'.name = "add" => same /\ heap'[list.id].items = Append(items, arg)
               /\ obs'.name = "remove" =>
                      IF inRange
                      THEN /\ same /\ whole
                           /\ heap'[list.id].items =
                                  SubSeq(items, 1, arg.n) \o SubSeq(items, arg.n + 2, Len(items))
                      ELSE /\ RaisedOnly("Index out of bounds.", <<>>)
                           /\ heap'[list.id].items = items]_vars

----------------------------------------------------------------------------
(* Programs that split a string: the statement `s.split(d);` for every     *)
(* string s of up to MaxText characters among `a` and `,` and for d among  *)
(* the strings Delimiters and the number 1, then `s.length();`.            *)

MaxText == 4

RECURSIVE Texts(_)
Texts(n) ==
    IF n = 0 THEN {""}
    ELSE LET shorter == Texts(n - 1)
         IN  shorter \cup {t \o c : t \in shorter, c \in {"a", ","}}

Delimiters == {"", ",", ",a"}

OpInvokeString(name, argCount) ==
    /\ Running /\ Temps = argCount + 1 /\ FailuresRoom /\ Len(heap) < MaxObjects
    /\ IS_STRING(First)
    /\ Decoded(Ins("INVOKE", name, "", argCount, NIL_VAL))
    /\ \E env \in Envs :
           Commit(Do_INVOKE(Fetched, name, argCount, env), Obs("INVOKE", name, "", argCount))

NextSpl ==
    \/ \E t \in Texts(MaxText) : Running /\ Temps = 0 /\ heap = <<>> /\ OpConstant(Str(t))
    \/ \E d \in Delimiters : Running /\ Temps = 1 /\ IS_STRING(First) /\ OpConstant(Str(d))
    \/ Running /\ Temps = 1 /\ IS_STRING(First) /\ OpConstant(NUMBER_VAL(1))
    \/ OpInvokeString("split", 1)
    \/ OpInvokeString("length", 0)
    \/ Running /\ Temps = 1 /\ ~IS_STRING(First) /\ OpPop

SpecSpl == Init /\ [][NextSpl]_vars

\* The pieces joined with d between them
RECURSIVE join(_, _)
join(pieces, d) ==
    IF pieces = <<>> THEN ""
    ELSE IF Len(pieces) = 1 THEN pieces[1]
    ELSE pieces[1] \o d \o join(Tail(pieces), d)

\* d occurs in the text p
Occurs(d, p) == \E i \in 1..(Len(p) - Len(d) + 1) : SubSeq(p, i, i + Len(d) - 1) = d

\* C19: `s.split(d)` with a string d evaluates to a list of strings; when d is
\* not empty no piece holds an occurrence of d and the pieces joined with d
\* are s, and when d is empty the pieces are the characters of s in order.
C19_SplitJoin ==
    [][\A before \in {VM}, after \in {VM'} :
          LET orig == before.stack[before.stackTop - 1]
              d == before.stack[before.stackTop]
              result == after.stack[after.stackTop]
              items == after.heap[result.id].items
              pieces == [i \in 1..Len(items) |-> items[i].chars.fmt]
          IN  (/\ before.status = "RUNNING" /\ obs' = Obs("INVOKE", "split", "", 1)
               /\ IS_STRING(orig) /\ IS_STRING(d)) =>
                  /\ after.status = "RUNNING" /\ after.raised = <<>>
                  /\ after.stackTop = before.stackTop - 1 /\ IS_LIST(result)
                  /\ \A i \in 1..Len(items) : IS_STRING(items[i])
                  /\ IF d.chars.fmt = ""
                     THEN pieces = [i \in 1..Len(orig.chars.fmt) |->
                                       SubSeq(orig.chars.fmt, i, i)]
                     ELSE /\ join(pieces, d.chars.fmt) = orig.chars.fmt
                          /\ \A i \in 1..Len(pieces) : ~Occurs(d.chars.fmt, pieces[i])]_vars

----------------------------------------------------------------------------
(* The front ends: interpret() compiles the source before it runs it, and  *)
(* the language server's Analyzer visits the same statements.  A source    *)
(* is any nesting, up to MaxNest deep, of `while` and `for` loops and      *)
(* function declarations, with up to MaxBreaks `break` statements          *)
(* anywhere in it.                                                         *)

MaxNest == 3
MaxBreaks == 2

\* Analyzer.visitWhileStatement and visitForStatement around the body
enterLoop(f) == [f EXCEPT !.inLoop = @ + 1]
leaveLoop(f) == [f EXCEPT !.inLoop = @ - 1]

\* Analyzer.visitFunDeclaration around the body
enterFunction(f) == [f EXCEPT !.inFunction = @ + 1]
leaveFunction(f) == [f EXCEPT !.inFunction = @ - 1]

visitBreakStatement(f) ==
    IF f.inLoop = 0
    THEN [f EXCEPT !.diagnostics = Append(@, "Cannot use break outside of a loop")]
    ELSE f

\* The compiler's stack of loop frames: pushed where a loop starts, popped
\* where it ends, after the pending breaks are patched
beginLoop(f) == [f EXCEPT !.loops = Append(@, 0)]
endLoop(f) == [f EXCEPT !.loops = SubSeq(@, 1, Len(@) - 1)]

\* The compiler at a `break`: an error outside any loop, one more pending
\* break of the innermost loop frame otherwise
breakStatement(f) ==
    IF f.loops = <<>>
    THEN [f EXCEPT !.errors = Append(@, "Cannot use 'break' outside of a loop.")]
    ELSE [f EXCEPT !.loops[Len(f.loops)] = @ + 1]

\* interpret(): a source with a compile error is not run, any other is
\* called as the script closure
interpret(s, f) ==
    IF f.errors # <<>> THEN [s EXCEPT !.status = "INTERPRET_COMPILE_ERROR"]
    ELSE LET id == s.nextObj + 1
             closure == CLOSURE_VAL(id, "script", 0, <<>>)
         IN  call(push([s EXCEPT !.nextObj = id, !.status = "RUNNING"], closure),
                  closure, 0).s

Compiling == status = "COMPILING"

Read(f, token) ==
    /\ front' = f
    /\ obs' = Obs(token, "", "", 0)
    /\ UNCHANGED <<stack, stackTop, frames, globals, modules, moduleObjs, currentModule,
                   upvalues, openUpvalues, nextObj, classes, instances, heap, testMode,
                   testFailures, cstack, files, status, stderr, stdout, raised,
                   protoList, varValue, exportSnapshot, act, strings, tempRoots>>

Open(kind) == [front EXCEPT !.nest = Append(@, kind)]
Close == [front EXCEPT !.nest = SubSeq(@, 1, Len(@) - 1)]
Innermost == front.nest[Len(front.nest)]

WhileStatement ==
    /\ Compiling /\ Len(front.nest) < MaxNest
    /\ Read(beginLoop(enterLoop(Open("while"))), "while")

ForStatement ==
    /\ Compiling /\ Len(front.nest) < MaxNest
    /\ Read(beginLoop(enterLoop(Open("for"))), "for")

FunDeclaration ==
    /\ Compiling /\ Len(front.nest) < MaxNest
    /\ Read(enterFunction(Open("fun")), "fun")

EndOfLoop ==
    /\ Compiling /\ front.nest # <<>> /\ Innermost \in {"while", "for"}
    /\ Read(endLoop(leaveLoop(Close)), "end of loop")

EndOfFunction ==
    /\ Compiling /\ front.nest # <<>> /\ Innermost = "fun"
    /\ Read(leaveFunction(Close), "end of function")

BreakStatement ==
    /\ Compiling /\ front.seen < MaxBreaks
    /\ Read(breakStatement(visitBreakStatement([front EXCEPT !.seen = @ + 1])), "break")

EndOfSource ==
    /\ Compiling /\ front.nest = <<>>
    /\ CommitVM(interpret(VM, front))
    /\ obs' = Obs("end of source", "", "", 0)
    /\ UNCHANGED <<files, protoList, varValue, exportSnapshot, front, act, strings>>

InitBrk ==
    /\ stack = <<>> /\ stackTop = 0 /\ frames = <<>>
    /\ globals = [n \in DOMAIN NativeArity |-> NATIVE_VAL(n)]
    /\ modules = EmptyTable /\ moduleObjs = <<>> /\ currentModule = 0
    /\ upvalues = <<>> /\ openUpvalues = <<>> /\ nextObj = 0
    /\ classes = <<>> /\ instances = <<>> /\ heap = <<>>
    /\ testMode = FALSE /\ testFailures = NullList /\ cstack = <<>>
    /\ files = NoFiles /\ status = "COMPILING" /\ stderr = <<>> /\ stdout = <<>>
    /\ raised = <<>>
    /\ obs = Obs("START", "", "", 0)
    /\ protoList = <<>> /\ varValue = <<>> /\ exportSnapshot = EmptyTable
    /\ front = StartOfSource
    /\ act = NoActivation
    /\ strings = NoStrings
    /\ tempRoots = NoTempRoots

NextBrk ==
    \/ WhileStatement
    \/ ForStatement
    \/ FunDeclaration
    \/ EndOfLoop
    \/ EndOfFunction
    \/ BreakStatement
    \/ EndOfSource

SpecBrk == InitBrk /\ [][NextBrk]_vars

\* The loops of nest that enclose its end inside the innermost function
RECURSIVE OwnLoops(_)
OwnLoops(nest) ==
    IF nest = <<>> \/ nest[Len(nest)] = "fun" THEN 0
    ELSE 1 + OwnLoops(SubSeq(nest, 1, Len(nest) - 1))

\* C20: a `break` with no loop around it inside its own function (or at the
\* top level) is reported by the compiler as the compile error
\* `Cannot use 'break' outside of a loop.` and by the analyzer as a
\* diagnostic, and a source with a compile error is never run.
C20_BreakOutsideLoop ==
    /\ [][(obs'.op = "break" /\ OwnLoops(front.nest) = 0) =>
              /\ front'.errors = Append(front.errors, "Cannot use 'break' outside of a loop.")
              /\ Len(front'.diagnostics) = Len(front.diagnostics) + 1]_vars
    /\ [][(obs'.op = "end of source" /\ front.errors # <<>>) =>
              status' = "INTERPRET_COMPILE_ERROR" /\ frames' = <<>>]_vars

----------------------------------------------------------------------------
(* Jumps, comparisons and print (vm.c 980-989, 1044-1048, 1222-1234,        *)
(* 1279-1288; printValue is value.c 31-70), and the loop programs.          *)

\* printValue of the values printed here: a boolean, nil, a whole number
\* (%.0f) or a string
printValue(value) ==
    CASE IS_BOOL(value) -> IF value.b THEN "true" ELSE "false"
      [] IS_NIL(value) -> "nil"
      [] IS_NUMBER(value) -> ToString(value.n)
      [] IS_STRING(value) -> value.chars.fmt

\* case OP_PRINT: printValue(pop()); printf("\n")
Do_PRINT(s) == [pop(s) EXCEPT !.stdout = Append(@, printValue(peek(s, 0)))]

\* BINARY_OP(BOOL_VAL, op)
BINARY_OP(s, op) ==
    IF ~IS_NUMBER(peek(s, 0)) \/ ~IS_NUMBER(peek(s, 1))
    THEN Fail(runtimeError(s, Msg("Operands must be numbers.", <<>>)))
    ELSE LET b == peek(s, 0).n
             a == peek(s, 1).n
         IN  push(pop(pop(s)), BOOL_VAL(IF op = "LESS" THEN a < b ELSE a > b))

\* case OP_EQUAL
Do_EQUAL(s) == push(pop(pop(s)), BOOL_VAL(valuesEqual(peek(s, 1), peek(s, 0))))

jumpNowhere(s, offset) == s

\* case OP_JUMP: frame->ip += offset
Do_JUMP(s, offset) == [s EXCEPT !.frames[Len(s.frames)].ip = @ + offset]

\* case OP_JUMP_IF_FALSE: the condition stays on the stack
Do_JUMP_IF_FALSE(s, offset) ==
    IF isFalsey(peek(s, 0)) THEN [s EXCEPT !.frames[Len(s.frames)].ip = @ + offset] ELSE s

\* case OP_LOOP: frame->ip -= offset
Do_LOOP(s, offset) == [s EXCEPT !.frames[Len(s.frames)].ip = @ - offset]

\* The instruction at frame->ip, in code that is fixed
Current == Code[TopFrame.ip]

OpPrintLine ==
    /\ Fixed /\ Temps > 0
    /\ Decoded(Ins("PRINT", "", "", 0, NIL_VAL))
    /\ Commit(Do_PRINT(Fetched), Obs("PRINT", "", "", 0))

OpCompare(op) ==
    /\ Fixed /\ Temps >= 2 /\ FailuresRoom
    /\ Decoded(Ins(op, "", "", 0, NIL_VAL))
    /\ Commit(BINARY_OP(Fetched, op), Obs(op, "", "", 0))

OpEqual ==
    /\ Fixed /\ Temps >= 2
    /\ Decoded(Ins("EQUAL", "", "", 0, NIL_VAL))
    /\ Commit(Do_EQUAL(Fetched), Obs("EQUAL", "", "", 0))

OpJump ==
    /\ Fixed /\ Current.op = "JUMP"
    /\ Commit(Do_JUMP(Fetched, Current.argc), Obs("JUMP", "", "", Current.argc))

OpJumpIfFalse ==
    /\ Fixed /\ Temps > 0 /\ Current.op = "JUMP_IF_FALSE"
    /\ Commit(Do_JUMP_IF_FALSE(Fetched, Current.argc), Obs("JUMP_IF_FALSE", "", "", Current.argc))

OpLoop ==
    /\ Fixed /\ Current.op = "LOOP"
    /\ Commit(Do_LOOP(Fetched, Current.argc), Obs("LOOP", "", "", Current.argc))

\* interpret(source) of a loop program
InitJmp ==
    \E name \in LoopNames : InitWith(CLOSURE_VAL(1, name, 0, <<>>)) /\ files = NoFiles

NextJmp ==
    \/ \E n \in 0..MaxIter : OpConstant(NUMBER_VAL(n))
    \/ \E text \in {"no", "end"} : OpConstant(Str(text))
    \/ \E name \in {"i", "j"} : OpDefineGlobal(name)
    \/ \E name \in {"i", "j"} : OpGetGlobal(name)
    \/ \E name \in {"i", "j"} : OpSetGlobal(name)
    \/ OpPop
    \/ OpAdd
    \/ OpCompare("LESS")
    \/ OpEqual
    \/ OpPrintLine
    \/ OpJump
    \/ OpJumpIfFalse
    \/ OpLoop
    \/ OpNil
    \/ OpReturn

SpecJmp == InitJmp /\ [][NextJmp]_vars

\* What the source means.  A memory is the values of the variables, the
\* lines printed, and whether a `break` is on its way out of a loop.
RECURSIVE run(_, _), iterate(_, _, _)
execute(st, m) ==
    CASE st.kind \in {"var", "assign"} -> [m EXCEPT !.values[st.name] = st.n]
      [] st.kind = "incr" -> [m EXCEPT !.values[st.name] = @ + 1]
      [] st.kind = "show" -> [m EXCEPT !.out = Append(@, ToString(m.values[st.name]))]
      [] st.kind = "say" -> [m EXCEPT !.out = Append(@, st.text)]
      [] st.kind = "break" -> [m EXCEPT !.broke = TRUE]
      [] st.kind = "if" -> IF m.values[st.name] = st.n THEN run(st.body, m) ELSE m
      [] st.kind = "while" -> iterate(st, m, MaxIter + 1)

\* statements after a break are skipped
run(stmts, m) ==
    IF stmts = <<>> \/ m.broke THEN m
    ELSE run(Tail(stmts), execute(Head(stmts), m))

\* a break ends the loop it is in, and only that one
iterate(st, m, rounds) ==
    IF rounds = 0 \/ ~(m.values[st.name] < st.n) THEN m
    ELSE LET after == run(st.body, m)
         IN  IF after.broke THEN [after EXCEPT !.broke = FALSE]
             ELSE iterate(st, after, rounds - 1)

Meaning(name) ==
    run(SourceOf(name), [values |-> [v \in {"i", "j"} |-> 0], out |-> <<>>, broke |-> FALSE]).out

IsPrefix(a, b) == Len(a) <= Len(b) /\ a = SubSeq(b, 1, Len(a))

\* C21: `break` transfers control to the first instruction after the
\* innermost loop around it and nowhere else: the statements after it in that
\* iteration and the further iterations of that loop are skipped, a loop
\* around that loop goes on with its next iteration.  A loop program prints
\* the lines its source means, never fails, and ends with them all printed.
C21_BreakLeavesInnermostLoop ==
    /\ [][(Running /\ TopFrame.closure.fn \in LoopNames) =>
              /\ status' \in {"RUNNING", "INTERPRET_OK"}
              /\ IsPrefix(stdout', Meaning(TopFrame.closure.fn))
              /\ status' = "INTERPRET_OK" => stdout' = Meaning(TopFrame.closure.fn)]_vars

\* an inner break has been taken twice and the outer loop went on in between
C21_Witness ==
    /\ status = "INTERPRET_OK"
    /\ stdout = <<"0", "0", "0", "1", "end">>

----------------------------------------------------------------------------
(* OP_EXPORT and the module being loaded (vm.c 1515-1533) *)

\* C22: OP_EXPORT executed while no module is being loaded (vm.currentModule
\* is NULL: the top-level script) is a runtime error and adds nothing to any
\* exports table; executed during a load it adds its name to the exports of
\* the module being loaded, the innermost one when loads nest, and to no
\* other.  No other instruction changes the exports of a module.
C22_ExportIntoCurrentModule ==
    /\ [][(obs'.op = "EXPORT" /\ currentModule = 0) =>
              /\ raised' # <<>>
              /\ raised'[1].msg.fmt = "Cannot export outside of module context."
              /\ status' = "INTERPRET_RUNTIME_ERROR"]_vars
    /\ [][\A i \in 1..Len(moduleObjs) :
              moduleObjs'[i].exports # moduleObjs[i].exports =>
                  /\ obs'.op = "EXPORT"
                  /\ i = currentModule
                  /\ i = cstack[Len(cstack)].module
                  /\ moduleObjs'[i].exports =
                         tableSet(moduleObjs[i].exports, obs'.name, tableGet(globals, obs'.name))]_vars
    /\ [][(obs'.op = "EXPORT" /\ currentModule # 0 /\ raised' = <<>>) =>
              tableHas(moduleObjs'[currentModule].exports, obs'.name)]_vars

\* an export inside a nested load: the module loading it has exported nothing
C22_Witness ==
    /\ obs.op = "EXPORT" /\ raised = <<>>
    /\ Len(cstack) = 2
    /\ currentModule = cstack[2].module
    /\ moduleObjs[currentModule].exports # EmptyTable
    /\ moduleObjs[cstack[1].module].exports = EmptyTable

\* an export by the top-level script
C22_WitnessScript ==
    /\ obs.op = "EXPORT" /\ raised # <<>> /\ cstack = <<>>
    /\ Len(moduleObjs) >= 1

----------------------------------------------------------------------------
(* Natives that return the error value, on the three ways to a native:     *)
(* `number(nil);` (OP_CALL of a native), `l.remove(i);` (OP_INVOKE) and     *)
(* `var f = l.remove; f(i);` (OP_CALL of a bound native), for the list     *)
(* `var l = [1];` and i among 0 and 9, with `var r = ..;` keeping a result, *)
(* in test mode (after `__enterTestMode();`) or not.                        *)

\* OP_GET_PROPERTY of a list
OpGetPropertyOfList(name) ==
    /\ Running /\ Temps >= 1 /\ FailuresRoom
    /\ IS_LIST(stack[stackTop])
    /\ Decoded(Ins("GET_PROPERTY", name, "", 0, NIL_VAL))
    /\ Commit(Do_GET_PROPERTY(Fetched, name), Obs("GET_PROPERTY", name, "", 0))

Defined(name) == tableHas(globals, name)

NextBnd ==
    \/ Running /\ Temps = 0 /\ heap = <<>> /\ ~testMode /\ OpGetGlobal("__enterTestMode")
    \/ Running /\ Temps = 1 /\ IS_NATIVE(First) /\ First.name = "__enterTestMode"
           /\ OpCall(0, MaxDepth)
    \/ Running /\ Temps = 0 /\ heap = <<>> /\ OpConstant(NUMBER_VAL(1))
    \/ Running /\ Temps = 1 /\ heap = <<>> /\ IS_NUMBER(First) /\ OpBuildList(1)
    \/ ListOperands(0) /\ ~Defined("l") /\ OpDefineGlobal("l")
    \/ \E name \in {"l", "f", "number"} :
           Running /\ Temps = 0 /\ Defined("l") /\ Defined(name) /\ OpGetGlobal(name)
    \/ ListOperands(0) /\ OpGetPropertyOfList("remove")
    \/ Running /\ Temps = 1 /\ IS_BOUND_NATIVE(First) /\ ~Defined("f") /\ OpDefineGlobal("f")
    \/ \E i \in {0, 9} :
           /\ Running /\ Temps = 1 /\ (IS_LIST(First) \/ IS_BOUND_NATIVE(First))
           /\ OpConstant(NUMBER_VAL(i))
    \/ Running /\ Temps = 1 /\ IS_NATIVE(First) /\ First.name = "number" /\ OpNil
    \/ ListOperands(1) /\ OpInvoke("remove", 1, MaxDepth)
    \/ Running /\ Temps = 2 /\ (IS_BOUND_NATIVE(First) \/ IS_NATIVE(First))
           /\ OpCall(1, MaxDepth)
    \/ Running /\ Temps = 1 /\ obs.op \in {"CALL", "INVOKE"} /\ obs.argc = 1 /\ ~Defined("r")
           /\ OpDefineGlobal("r")
    \/ Running /\ Temps = 1 /\ obs.op \in {"CALL", "INVOKE"} /\ OpPop

SpecBnd == Init /\ [][NextBnd]_vars

\* The messages of the natives that return the error value here
NativeErrors == {"Index out of bounds.", "Given type cannot be converted to a number."}

\* A native has returned the error value in the step
NativeFailed == raised' # <<>> /\ raised'[1].msg.fmt \in NativeErrors

\* C23: on every way to a native (OP_CALL of a native, OP_INVOKE of a method
\* of a primitive, OP_CALL of a bound native taken from a property such as
\* `var f = l.remove; f(9)`) a native that returns the error value makes the
\* call fail with a runtime error and nothing is pushed: the error value is
\* never on the stack and never stored.
C23_NativeErrorFailsTheCall ==
    /\ [][NativeFailed => status' = "INTERPRET_RUNTIME_ERROR"]_vars
    /\ [](\A i \in 1..stackTop : ~IS_ERROR(stack[i]))
    /\ [](\A name \in DOMAIN globals : ~IS_ERROR(globals[name]))

----------------------------------------------------------------------------
(* A module and its importer: the globals each of them sees.  The module   *)
(* file A.cmel is, for k in 0..MaxAssign,                                  *)
(*     var V = 0; export fun bump() { V = V + 1; }                         *)
(*     V = V + 1;  (k times; or, in the other files, bump(); k times)      *)
(*     export fun getV() { return V; }                                     *)
(*     export fun getX() { return X; }                                     *)
(*     export fun setX() { X = 2; }                                        *)
(* The main script declares `var X = n;`, `class K {}` and `fun g() {}`,   *)
(* imports A, and calls g and the functions of the module, in any order.   *)

IsoSource(k, viaFunction) ==
    <<VarStmt("V", 0), FunStmt("bump"), ExportStmt("bump")>>
    \o [i \in 1..k |-> IF viaFunction THEN CallStmt("bump") ELSE IncrStmt("V")]
    \o <<FunStmt("getV"), ExportStmt("getV"), FunStmt("getX"), ExportStmt("getX"),
         FunStmt("setX"), ExportStmt("setX")>>

IsoFileSystems ==
    {[NoFiles EXCEPT !.A = [status |-> "ok", code |-> compile(IsoSource(k, f)).code]] :
        k \in 0..MaxAssign, f \in BOOLEAN}

IsoFunctions == {"bump", "getV", "getX", "setX"}

InitIso == InitWith(ScriptClosure) /\ files \in IsoFileSystems

\* The main script is between two statements, or has pushed n values of one
MainScript(n) == Running /\ ~Fixed /\ Len(frames) = 1 /\ Temps = n

NextIso ==
    \/ \E n \in 0..2 : (Fixed \/ (MainScript(0) /\ ~Defined("X"))) /\ OpConstant(NUMBER_VAL(n))
    \/ MainScript(1) /\ IS_NUMBER(First) /\ OpDefineGlobal("X")
    \/ MainScript(0) /\ classes = <<>> /\ OpClass("K")
    \/ MainScript(1) /\ IS_CLASS(First) /\ OpDefineGlobal("K")
    \/ MainScript(0) /\ ~Defined("g") /\ OpClosure("g", "script")
    \/ MainScript(1) /\ obs.op = "CLOSURE" /\ OpDefineGlobal("g")
    \/ MainScript(0) /\ OpImport("A")
    \/ \E name \in IsoFunctions \cup {"g"} :
           MainScript(0) /\ Defined(name) /\ OpGetGlobal(name)
    \/ (Fixed \/ (MainScript(1) /\ IS_CLOSURE(First))) /\ OpCall(0, MaxDepth)
    \/ (Fixed \/ (MainScript(1) /\ obs.op = "RETURN")) /\ OpPop
    \/ \E name \in IsoFunctions \cup {"V"} : Fixed /\ OpDefineGlobal(name)
    \/ \E name \in IsoFunctions \cup {"V", "X"} : Fixed /\ OpGetGlobal(name)
    \/ \E name \in {"V", "X"} : Fixed /\ OpSetGlobal(name)
    \/ \E name \in IsoFunctions : Fixed /\ OpClosure(name, "module")
    \/ \E name \in IsoFunctions : Fixed /\ OpExport(name)
    \/ Fixed /\ OpAdd
    \/ Fixed /\ OpNil
    \/ Fixed /\ OpReturn

SpecIso == InitIso /\ [][NextIso]_vars

\* The value the code of module m finds for the global name: the entry of
\* the module's globals, or else the entry of vm.globals (in objs and table)
Seen(objs, table, m, name) ==
    IF tableHas(objs[m].globals, name) THEN tableGet(objs[m].globals, name)
    ELSE tableGet(table, name)

HasSeen(objs, table, m, name) == tableHas(objs[m].globals, name) \/ tableHas(table, name)

\* The step is an assignment to, or the declaration of, the global name by
\* code of module m
Assigns(m, name) ==
    /\ obs'.op \in {"SET_GLOBAL", "DEFINE_GLOBAL"} /\ obs'.name = name
    /\ TopFrame.closure.module = m

\* The step ends the load of module m: its body has returned
LoadEnds(m) ==
    /\ cstack # <<>> /\ cstack[Len(cstack)].module = m
    /\ Len(cstack') < Len(cstack) /\ raised' = <<>>

\* C24: when a module has finished loading, module.globals[g] is the value
\* assigned to g last while the body ran, however many assignments the body
\* and the functions it called made, and a function of the module called
\* later reads that value.  In steps: an assignment to g by code of the
\* module gives g the assigned value as the module sees it; no other step of
\* the load changes what the module sees in g; the end of the load leaves
\* that value in module.globals; after the load a read of g by code of the
\* module yields module.globals[g].
C24_ModuleGlobalIsLastAssigned ==
    [][\A m \in 1..Len(moduleObjs) : \A g \in {"V"} :
          /\ (Running /\ Assigns(m, g) /\ raised' = <<>>) =>
                 Seen(moduleObjs', globals', m, g) = stack[stackTop]
          /\ (currentModule = m /\ currentModule' = m /\ ~Assigns(m, g)
              /\ HasSeen(moduleObjs, globals, m, g)) =>
                 Seen(moduleObjs', globals', m, g) = Seen(moduleObjs, globals, m, g)
          /\ (LoadEnds(m) /\ HasSeen(moduleObjs, globals, m, g)) =>
                 /\ tableHas(moduleObjs'[m].globals, g)
                 /\ tableGet(moduleObjs'[m].globals, g) = Seen(moduleObjs, globals, m, g)
          /\ (Running /\ cstack = <<>> /\ obs'.op = "GET_GLOBAL" /\ obs'.name = g
              /\ TopFrame.closure.module = m /\ raised' = <<>>) =>
                 stack'[stackTop'] = tableGet(moduleObjs[m].globals, g)]_vars

\* Code of a module is running after the load of the module: a function of
\* the module called by the importer
CalledAfterLoad == Running /\ cstack = <<>> /\ TopFrame.closure.module # 0

\* C25: a function of a module called from the importer after the load
\* resolves globals in the globals of its own module only: GET_GLOBAL yields
\* the module's entry and fails for a name the module has not, SET_GLOBAL
\* leaves the importer's globals as they are, and an assignment to a name the
\* module has not is the error `Undefined variable` that changes no table.
C25_ModuleFunctionSeesOwnGlobals ==
    [][CalledAfterLoad =>
          LET own == moduleObjs[TopFrame.closure.module].globals
          IN  /\ obs'.op = "GET_GLOBAL" =>
                     IF tableHas(own, obs'.name)
                     THEN raised' = <<>> /\ stack'[stackTop'] = tableGet(own, obs'.name)
                     ELSE raised' # <<>>
              /\ obs'.op = "SET_GLOBAL" =>
                     /\ globals' = globals
                     /\ ~tableHas(own, obs'.name) =>
                            /\ raised' # <<>>
                            /\ raised'[1].msg.fmt = "Undefined variable '%s'"
                            /\ moduleObjs' = moduleObjs]_vars

\* The names the code declares as globals
Declares(code) == {code[i].name : i \in {j \in 1..Len(code) : code[j].op = "DEFINE_GLOBAL"}}

\* The entries of the table that are not natives: what a program defined
Defines(table) == {name \in DOMAIN table : ~IS_NATIVE(table[name])}

\* C26: when the body of a module starts, the globals it runs with hold the
\* natives only, no value that the importer defined, whatever its type; and
\* no global of the importer ends in module.globals when the load ends (the
\* names that the module declares itself are its own).
C26_ModuleStartsWithoutImporterGlobals ==
    /\ [][Len(cstack') > Len(cstack) => Defines(globals') = {}]_vars
    /\ [][\A m \in 1..Len(moduleObjs) :
              LoadEnds(m) =>
                  LET c == cstack[Len(cstack)]
                  IN  DOMAIN moduleObjs'[m].globals \cap Defines(c.savedGlobals)
                          \subseteq Declares(files[c.path].code)]_vars

----------------------------------------------------------------------------
(* The garbage collector's view of the heap: the roots and the references  *)
(* of each kind of object.  A value stands for the object it points to; a  *)
(* module and an upvalue are named by their id.                            *)

MODULE_REF(id) == [t |-> "module", id |-> id]
UPVALUE_REF(id) == [t |-> "upvalue", id |-> id]

\* IS_OBJ
IsObject(v) == v.t \notin {"nil", "bool", "number", "error"}

TableValues(table) == {table[k] : k \in DOMAIN table}
SeqValues(seq) == {seq[i] : i \in 1..Len(seq)}

\* blackenObject: the objects an object refers to (a function and the
\* strings that name things are constants of the code, which stays)
blackenObject(v) ==
    CASE v.t = "closure" ->
           {UPVALUE_REF(u) : u \in SeqValues(v.upvalues)}
           \cup (IF v.module # 0 THEN {MODULE_REF(v.module)} ELSE {})
      [] v.t = "upvalue" -> IF upvalues[v.id].open THEN {} ELSE {upvalues[v.id].closed}
      [] v.t = "module" ->
           TableValues(moduleObjs[v.id].globals) \cup TableValues(moduleObjs[v.id].exports)
      [] v.t = "class" -> TableValues(classes[v.id].methods)
      [] v.t = "instance" ->
           {CLASS_VAL(instances[v.id].klass)} \cup TableValues(instances[v.id].fields)
      [] v.t = "bound_method" -> {v.receiver, v.method}
      [] v.t = "bound_native" -> {v.receiver}
      [] OTHER -> {}

\* markRoots: the value stack, the closures of the call frames, the open
\* upvalues, vm.globals, the module cache and the current module
markRoots ==
    {stack[i] : i \in 1..stackTop}
    \cup {frames[i].closure : i \in 1..Len(frames)}
    \cup {UPVALUE_REF(u) : u \in SeqValues(openUpvalues)}
    \cup TableValues(globals)
    \cup {MODULE_REF(modules[path]) : path \in DOMAIN modules}
    \cup (IF currentModule # 0 THEN {MODULE_REF(currentModule)} ELSE {})

\* traceReferences: the objects marked once the gray objects are drained
RECURSIVE traceReferences(_, _)
traceReferences(gray, black) ==
    IF gray = {} THEN black
    ELSE LET v == CHOOSE v \in gray : TRUE
         IN  traceReferences((gray \cup {r \in blackenObject(v) : IsObject(r)})
                                 \ (black \cup {v}),
                             black \cup {v})

\* The objects that a collection would keep, and those reachable from a table
Marked == traceReferences({r \in markRoots : IsObject(r)}, {})
ReachableFrom(table) == traceReferences({r \in TableValues(table) : IsObject(r)}, {})

\* C27: while a module is loaded and its body runs, every object reachable
\* from the globals of the importing script is reachable from a root of the
\* collector, so that no collection during the load frees a value the
\* importer uses after the import.
C27_ImporterGlobalsStayRooted ==
    [](Running => \A i \in 1..Len(cstack) :
                      cstack[i].kind = "loadModule" =>
                          ReachableFrom(cstack[i].savedGlobals) \subseteq Marked)

----------------------------------------------------------------------------
(* Allocation points of the C functions.  assertEqualNative (vm.c 574-598) *)
(* and loadModule (vm.c 1549-1656) are stepped statement by statement.     *)
(* Every allocation goes through reallocate, which may run a collection;   *)
(* a collection frees what no root reaches.  A local of the C function is  *)
(* no root.  act holds the statements to execute, the locals, the roots    *)
(* the function has set up, the strings interned and the objects freed.    *)

Object(kind, id) == [kind |-> kind, id |-> id]
NoObject == Object("null", "")
StringObject(v) == Object("string", printValue(v))

Locals == {"expectedStr", "actualStr", "pathString", "moduleFunction", "module",
           "moduleClosure"}

\* One statement: the local it assigns, the object it makes or finds, the
\* locals it reads, and its line in vm.c
CStep(op, local, obj, uses, line) ==
    [op |-> op, local |-> local, obj |-> obj, uses |-> uses, line |-> line]

\* `ObjString* local = valueToString(value)`: a string is returned as it is,
\* any other value is formatted and handed to copyString
valueToStringStep(local, value, line) ==
    CStep(IF IS_STRING(value) THEN "AS_STRING" ELSE "copyString", local,
          StringObject(valueToString(value)), {}, line)

\* assertEqualNative
assertEqualNativeSteps(expected, actual) ==
    IF valuesEqual(expected, actual) THEN <<CStep("return", "", NoObject, {}, 597)>>
    ELSE << valueToStringStep("expectedStr", expected, 579),
            valueToStringStep("actualStr", actual, 580),
            CStep("pushTempRoot", "", NoObject, {"expectedStr"}, 582),
            CStep("pushTempRoot", "", NoObject, {"actualStr"}, 583),
            CStep("read", "", NoObject, {"expectedStr", "actualStr"}, 586),
            CStep("popTempRoot", "", NoObject, {}, 591),
            CStep("popTempRoot", "", NoObject, {}, 592),
            CStep("return", "", NoObject, {}, 595) >>

\* loadModule, for a module that is cached or not, whose file exists or not
\* and compiles or not, and whose body ends well or in a runtime error
loadModuleSteps(path, cached, exists, compiles, bodyOk) ==
    <<CStep("copyString", "pathString", StringObject(Str(path)), {}, 1552)>>
    \o (IF cached \/ ~exists \/ ~compiles
        THEN <<CStep("return", "", NoObject, {},
                     IF cached THEN 1555 ELSE IF ~exists THEN 1567 ELSE 1597)>>
        ELSE << CStep("compile", "moduleFunction", Object("function", path), {}, 1592),
                CStep("newModule", "module", Object("module", path), {"pathString"}, 1606),
                CStep("setCurrentModule", "", NoObject, {"module"}, 1607),
                CStep("tableSet", "", NoObject, {}, 1618),
                CStep("push", "", NoObject, {"moduleFunction"}, 1625),
                CStep("newClosure", "moduleClosure", Object("closure", path),
                      {"moduleFunction", "module"}, 1626),
                CStep("pop", "", NoObject, {}, 1627),
                CStep("push", "", NoObject, {"moduleClosure"}, 1628),
                CStep("call", "", NoObject, {"moduleClosure"}, 1629),
                CStep("run", "", NoObject, {}, 1631) >>
             \o (IF ~bodyOk
                 THEN << CStep("restore", "", NoObject, {}, 1637),
                         CStep("return", "", NoObject, {}, 1638) >>
                 ELSE << CStep("pop", "", NoObject, {}, 1641),
                         CStep("tableSet", "", NoObject, {"module"}, 1644),
                         CStep("restore", "", NoObject, {}, 1650),
                         CStep("cache", "", NoObject, {"pathString", "module"}, 1653),
                         CStep("return", "", NoObject, {"module"}, 1655) >>))

\* The statement to execute, and whether the function is still executing
Here == act.steps[act.pc]
At(op) == act.fault = "" /\ act.pc <= Len(act.steps) /\ Here.op = op

\* blackenObject, for the objects of these functions: a closure refers to
\* its function and its module
References(o) ==
    IF o.kind = "closure" THEN {Object("function", o.id), Object("module", o.id)} ELSE {}

\* markRoots: the value stack (the arguments of the native included), the
\* closures of the frames, the module cache, vm.currentModule and the
\* temporary roots; the constants of the running function are reached
\* through its frame
RootsOf(a) ==
    (a.constants \cup a.arguments \cup SeqValues(a.stackRoots) \cup SeqValues(a.frameRoots)
        \cup SeqValues(a.tempRoots) \cup a.cache \cup {a.currentModule}) \ {NoObject}

\* traceReferences from the roots
ReachableOf(a) ==
    LET roots == RootsOf(a)
        one == roots \cup UNION {References(o) : o \in roots}
    IN  one \cup UNION {References(o) : o \in one}

\* The objects on the heap that these functions can name
Allocated(a) == (a.interned \cup {a.locals[l] : l \in Locals} \cup a.cache) \ {NoObject}

\* collectGarbage: sweep frees every unmarked object, and tableRemoveWhite
\* drops the freed strings from vm.strings
collectGarbage(a) ==
    [a EXCEPT !.freed = @ \cup (Allocated(a) \ ReachableOf(a)),
              !.interned = @ \cap ReachableOf(a)]

\* reallocate of a growing block: a collection may run first
reallocate(a) == {a, collectGarbage(a)}

\* A local that the statement reads points at a freed object
Dangling == \E l \in Here.uses : act.locals[l] \in act.freed

\* The statement takes the function to one of the states in next, unless
\* it reads freed memory
Execute(next) ==
    /\ act' \in IF Dangling THEN {[act EXCEPT !.fault = ub] : ub \in UBOutcomes}
                ELSE {[a EXCEPT !.pc = @ + 1] : a \in next}
    /\ UNCHANGED <<stack, stackTop, frames, globals, modules, moduleObjs, currentModule,
                   upvalues, openUpvalues, nextObj, classes, instances, heap, testMode,
                   testFailures, cstack, files, status, stderr, stdout, raised, obs,
                   protoList, varValue, exportSnapshot, front, strings, tempRoots>>

Bind(a, local, obj) == [a EXCEPT !.locals[local] = obj, !.freed = @ \ {obj}]
Used(a) == a.locals[CHOOSE l \in Here.uses : TRUE]

\* copyString (object.c): an interned string is returned; otherwise the
\* characters and the ObjString are allocated, and the string is on the
\* stack while tableSet interns it
copyString_interned ==
    At("copyString") /\ Here.obj \in act.interned
    /\ Execute({Bind(act, Here.local, Here.obj)})
copyString_allocated ==
    At("copyString") /\ Here.obj \notin act.interned
    /\ Execute({[Bind(a, Here.local, Here.obj) EXCEPT !.interned = @ \cup {Here.obj}] :
                   a \in reallocate(act)})
AS_STRING == At("AS_STRING") /\ Execute({Bind(act, Here.local, Here.obj)})

\* compile, newModule, newClosure: the object is what the allocations of
\* the callee leave to its caller
Allocate(op) ==
    At(op) /\ Execute({Bind(a, Here.local, Here.obj) : a \in reallocate(act)})

\* tableSet and tableAddAll grow the entries of the table
TableSetGrows == At("tableSet") /\ Execute(reallocate(act))

\* tableSet(&vm.modules, pathString, OBJ_VAL(module))
CacheModule ==
    At("cache")
    /\ Execute({[a EXCEPT !.cache = @ \cup {a.locals["module"]}] : a \in reallocate(act)})

PushObject == At("push") /\ Execute({[act EXCEPT !.stackRoots = Append(@, Used(act))]})
PopObject ==
    At("pop") /\ Execute({[act EXCEPT !.stackRoots = SubSeq(@, 1, Len(@) - 1)]})
PushTempRoot ==
    At("pushTempRoot") /\ Execute({[act EXCEPT !.tempRoots = Append(@, Used(act))]})
PopTempRoot ==
    At("popTempRoot") /\ Execute({[act EXCEPT !.tempRoots = SubSeq(@, 1, Len(@) - 1)]})
SetCurrentModule ==
    At("setCurrentModule") /\ Execute({[act EXCEPT !.currentModule = Used(act)]})
RestoreCurrentModule ==
    At("restore") /\ Execute({[act EXCEPT !.currentModule = NoObject, !.frameRoots = <<>>,
                                          !.stackRoots = <<>>]})
CallClosure == At("call") /\ Execute({[act EXCEPT !.frameRoots = Append(@, Used(act))]})

\* run(): the body allocates; its OP_RETURN pops the frame and leaves the
\* result, nil, in the slot of the closure
RunBody ==
    At("run")
    /\ Execute({[a EXCEPT !.frameRoots = <<>>, !.stackRoots = <<NoObject>>] :
                   a \in reallocate(act)})

ReadChars == At("read") /\ Execute({act})
ReturnToCaller == At("return") /\ Execute({act})

\* The values asserted equal, and the strings that exist before the call
GcValues == {NIL_VAL, NUMBER_VAL(1), NUMBER_VAL(2), Str("1"), Str("nil")}
GcStrings == {StringObject(Str("1")), StringObject(Str("2")), StringObject(Str("nil"))}

Activation(fn, steps, arguments, constants, interned, cache) ==
    [fn |-> fn, steps |-> steps, pc |-> 1, fault |-> "",
     locals |-> [l \in Locals |-> NoObject],
     arguments |-> arguments, constants |-> constants,
     stackRoots |-> <<>>, frameRoots |-> <<>>, tempRoots |-> <<>>,
     currentModule |-> NoObject, cache |-> cache,
     interned |-> interned \cup arguments \cup constants, freed |-> {}]

\* assertEqual(expected, actual) with its arguments on the stack, or
\* OP_IMPORT of a path that is a constant of the running function
GcActivations ==
    {Activation("assertEqualNative", assertEqualNativeSteps(expected, actual),
                {StringObject(v) : v \in {w \in {expected, actual} : IS_STRING(w)}},
                constants, interned, {}) :
        expected \in GcValues, actual \in GcValues,
        constants \in SUBSET {StringObject(Str("2"))}, interned \in SUBSET GcStrings}
    \cup
    {Activation("loadModule", loadModuleSteps("A", cached, exists, compiles, bodyOk),
                {}, {StringObject(Str("A"))}, {},
                IF cached THEN {Object("module", "A")} ELSE {}) :
        cached \in BOOLEAN, exists \in BOOLEAN, compiles \in BOOLEAN, bodyOk \in BOOLEAN}

InitGc ==
    /\ InitInterpreter(ScriptClosure) /\ files = NoFiles
    /\ act \in GcActivations

NextGc ==
    \/ copyString_interned
    \/ copyString_allocated
    \/ AS_STRING
    \/ \E op \in {"compile", "newModule", "newClosure"} : Allocate(op)
    \/ TableSetGrows
    \/ CacheModule
    \/ PushObject
    \/ PopObject
    \/ PushTempRoot
    \/ PopTempRoot
    \/ SetCurrentModule
    \/ RestoreCurrentModule
    \/ CallClosure
    \/ RunBody
    \/ ReadChars
    \/ ReturnToCaller

SpecGc == InitGc /\ [][NextGc]_vars

\* The statement allocates, so that a collection may run in it
AllocationPoint ==
    \/ \E op \in {"compile", "newModule", "newClosure", "tableSet", "cache", "run"} : At(op)
    \/ At("copyString") /\ Here.obj \notin act.interned

\* The objects the function holds in a local and reads from this statement on
LiveLocals ==
    {act.locals[l] : l \in UNION {act.steps[i].uses : i \in act.pc..Len(act.steps)}}
        \ {NoObject}

\* C28: at every allocation point of assertEqualNative and of loadModule,
\* each object that the function obtained earlier and uses at or after the
\* allocation is reachable from a root of the collector (the stack, the
\* frames, the temporary roots, the module cache, the current module), so
\* that no collection frees it before its last use.
C28_LocalsRootedAtAllocations ==
    AllocationPoint => LiveLocals \subseteq ReachableOf(act)

----------------------------------------------------------------------------
(* Upvalues across the ways a run() ends.  The script declares keep and    *)
(* calls it, maps it over a list of numbers, which runs keep in a run() of *)
(* listMapNative, and imports the module A and calls its G:                *)
(*     var G;                                                              *)
(*     { var a = 1; fun geta() { return a; } G = geta; }                   *)
(*     export G;                                                           *)
(* or a module that fails at the end of the block, reading a global that   *)
(* does not exist.                                                         *)

BlockCode(fails) ==
    << Ins("NIL", "", "", 0, NIL_VAL),
       Ins("DEFINE_GLOBAL", "G", "", 0, NIL_VAL),
       Ins("CONSTANT", "", "", 0, NUMBER_VAL(1)),
       Ins("CLOSURE", "geta", "", 0, NIL_VAL),
       Ins("GET_LOCAL", "", "", 2, NIL_VAL),
       Ins("SET_GLOBAL", "G", "", 0, NIL_VAL),
       Ins("POP", "", "", 0, NIL_VAL) >>
    \o (IF fails THEN <<Ins("GET_GLOBAL", "U", "", 0, NIL_VAL)>> ELSE <<>>)
    \o << Ins("POP", "", "", 0, NIL_VAL),
          Ins("CLOSE_UPVALUE", "", "", 0, NIL_VAL),
          Ins("EXPORT", "G", "", 0, NIL_VAL),
          Ins("NIL", "", "", 0, NIL_VAL),
          Ins("RETURN", "", "", 0, NIL_VAL) >>

RetFileSystems ==
    {[NoFiles EXCEPT !.A = [status |-> "ok", code |-> BlockCode(fails)]] : fails \in BOOLEAN}

InitRet == InitWith(ScriptClosure) /\ files \in RetFileSystems

\* The main script is running code that is not fixed
InMain == Running /\ ~Fixed /\ Len(frames) = 1

\* The operands of the statement being evaluated are numbers
NumbersOnly == \A i \in (stackTop - Temps + 1)..stackTop : IS_NUMBER(stack[i])

NextRet ==
    \/ MainScript(0) /\ ~Defined("keep") /\ OpClosure("keep", "script")
    \/ MainScript(1) /\ obs.op = "CLOSURE" /\ OpDefineGlobal("keep")
    \/ \E n \in 1..2 :
           (Fixed \/ (InMain /\ Temps < 2 /\ NumbersOnly /\ n = 1)
                  \/ (MainScript(1) /\ obs.op = "GET_GLOBAL" /\ obs.name = "keep" /\ n = 2))
           /\ OpConstant(NUMBER_VAL(n))
    \/ \E n \in 0..2 : MainScript(n) /\ NumbersOnly /\ OpBuildList(n)
    \/ (MainScript(0) \/ (MainScript(1) /\ IS_LIST(First))) /\ Defined("keep")
           /\ OpGetGlobal("keep")
    \/ MainScript(2) /\ IS_LIST(First) /\ Len(heap) < MaxObjects
                     /\ OpInvoke("map", 1, MaxDepth)
    \/ \E n \in 0..1 : MainScript(n + 1) /\ ~IS_LIST(First) /\ OpCall(n, MaxDepth)
    \/ MainScript(0) /\ OpImport("A")
    \/ MainScript(0) /\ Defined("G") /\ OpGetGlobal("G")
    \/ (Fixed \/ MainScript(1)) /\ OpPop
    \/ Fixed /\ OpClosure("getx", "keep")
    \/ Fixed /\ OpClosure("geta", "module")
    \/ Fixed /\ OpGetLocal(2)
    \/ Fixed /\ OpGetUpvalue(0)
    \/ (Fixed \/ MainScript(0)) /\ OpNil
    \/ Fixed /\ OpDefineGlobal("G")
    \/ Fixed /\ OpSetGlobal("G")
    \/ Fixed /\ OpGetGlobal("U")
    \/ Fixed /\ OpExport("G")
    \/ Fixed /\ OpCloseUpvalue
    \/ (Fixed \/ (MainScript(1) /\ obs.op = "NIL")) /\ OpReturn

SpecRet == InitRet /\ [][NextRet]_vars

\* The slot discarded by the instruction about to execute: the first slot
\* of the frame for OP_RETURN, the top of the stack for OP_CLOSE_UPVALUE
Discarded(op) == IF op = "RETURN" THEN TopFrame.slots ELSE stackTop - 1

OpenAt(ups, list, slot) ==
    {u \in 1..Len(ups) : ups[u].open /\ ups[u].location >= slot}
    \cup {list[i] : i \in {j \in 1..Len(list) : ups[list[j]].location >= slot}}

\* C29: after OP_RETURN (of a called closure, of the callback that a run()
\* of listMapNative executes, of a module body) and after OP_CLOSE_UPVALUE,
\* no upvalue of the open list points at or above the new stack top, and
\* every upvalue that was open at or above the discarded slot is closed and
\* off the list.
C29_NoOpenUpvalueAboveTop ==
    [][(Running /\ obs'.op \in {"RETURN", "CLOSE_UPVALUE"}) =>
          /\ \A i \in 1..Len(openUpvalues') :
                 upvalues'[openUpvalues'[i]].location < stackTop'
          /\ \A u \in OpenAt(upvalues, openUpvalues, Discarded(obs'.op)) :
                 /\ ~upvalues'[u].open
                 /\ \A i \in 1..Len(openUpvalues') : openUpvalues'[i] # u]_vars

\* The callback of the first item has returned to listMapNative, its
\* OP_RETURN closing the upvalue of x, and the callback of the second item
\* is running
C29_Witness ==
    /\ Running /\ obs.op = "RETURN"
    /\ cstack # <<>> /\ cstack[Len(cstack)].kind = "listMap" /\ cstack[Len(cstack)].index = 2
    /\ TopFrame.closure.fn = "keep"
    /\ Len(upvalues) = 1 /\ ~upvalues[1].open /\ upvalues[1].closed = NUMBER_VAL(1)
    /\ openUpvalues = <<>>

\* The upvalue is on vm.openUpvalues
OnOpenList(u) == \E i \in 1..Len(openUpvalues) : openUpvalues[i] = u

\* C30: in every reachable state every upvalue is either open, on the open
\* list and pointing at a slot of the live region of the stack, or closed,
\* pointing at its own cell and off the list; a closed upvalue never opens
\* again, and closing copies the value its slot holds at that moment.
C30_UpvalueOpenOrClosed ==
    /\ [](\A u \in 1..Len(upvalues) :
             IF upvalues[u].open
             THEN OnOpenList(u) /\ 0 <= upvalues[u].location
                                /\ upvalues[u].location < stackTop
             ELSE upvalues[u].location = -1 /\ ~OnOpenList(u))
    /\ [][\A u \in 1..Len(upvalues) :
             /\ ~upvalues[u].open => ~upvalues'[u].open
             /\ (upvalues[u].open /\ ~upvalues'[u].open) =>
                    upvalues'[u].closed = stack[upvalues[u].location + 1]]_vars

----------------------------------------------------------------------------
(* Closures that share a variable.  The script share declares the globals  *)
(* S and G and the function pair(x, y) and goes on with the statements     *)
(* `pair(1, 1);`, `S();`, `G();`; the body of pair is any sequence of the  *)
(* declarations of setx, getx, gety and swap and of the statements         *)
(* `S = c;`, `G = c;`, `c();` for a declared function c, ended by          *)
(* `return;`.                                                              *)

ShareClosure == CLOSURE_VAL(1, "share", 0, <<>>)

InitShr == InitWith(ShareClosure) /\ files = NoFiles

\* The body of pair is at the start of a statement
InPair == Running /\ ~Fixed /\ TopFrame.closure.fn = "pair"

PairStatement == InPair /\ obs.op \in {"CALL", "CLOSURE", "POP"}

NextShr ==
    \/ (Fixed \/ PairStatement) /\ OpNil
    \/ Fixed /\ \E name \in {"S", "G", "pair"} : OpDefineGlobal(name)
    \/ (Fixed \/ PairStatement)
       /\ \E fn \in {"pair", "setx", "getx", "gety", "swap"} :
              OpClosure(fn, IF fn = "pair" THEN "share" ELSE "pair")
    \/ \E name \in {"S", "G", "pair"} : MainScript(0) /\ OpGetGlobal(name)
    \/ \E n \in 1..2 :
           (Fixed \/ (InMain /\ Temps \in 1..2 /\ IS_CLOSURE(First)
                             /\ First.fn = "pair" /\ n = 1))
           /\ OpConstant(NUMBER_VAL(n))
    \/ \E n \in {0, 2} :
           (MainScript(n + 1) \/ (InPair /\ obs.op = "GET_LOCAL" /\ n = 0))
           /\ OpCall(n, MaxDepth)
    \/ \E slot \in 3..(2 + MaxTemps) : PairStatement /\ OpGetLocal(slot)
    \/ \E name \in {"S", "G"} : InPair /\ obs.op = "GET_LOCAL" /\ OpSetGlobal(name)
    \/ \E slot \in 0..1 : Fixed /\ OpGetUpvalue(slot)
    \/ Fixed /\ OpSetUpvalue(0)
    \/ (Fixed \/ MainScript(1) \/ (InPair /\ obs.op \in {"SET_GLOBAL", "RETURN"})) /\ OpPop
    \/ (Fixed \/ (InPair /\ obs.op = "NIL")) /\ OpReturn

SpecShr == InitShr /\ [][NextShr]_vars

\* The upvalues of the closure pushed by the OP_CLOSURE that executed last
Pushed(s, top) == s[top].upvalues

\* C31: vm.openUpvalues is strictly descending by slot (so it holds one
\* upvalue per slot at most) and holds open upvalues only; while the program
\* runs no two open upvalues point at the same slot; OP_CLOSURE gives the
\* closure, for each local it captures, the open upvalue of that slot, the one
\* already on the list when there is one; and a value assigned through an
\* upvalue is the value read through that upvalue, open or closed, by every
\* closure that holds it.
C31_OneUpvaluePerVariable ==
    /\ [](\A i \in 1..Len(openUpvalues) :
             /\ upvalues[openUpvalues[i]].open
             /\ \A j \in 1..Len(openUpvalues) :
                    i < j => upvalues[openUpvalues[i]].location
                                 > upvalues[openUpvalues[j]].location)
    /\ [](Running => \A u, v \in 1..Len(upvalues) :
             (upvalues[u].open /\ upvalues[v].open
                  /\ upvalues[u].location = upvalues[v].location) => u = v)
    /\ [][/\ (Running /\ status' = "RUNNING" /\ obs'.op = "CLOSURE") =>
                 \A i \in 1..Len(Functions[obs'.name].ups) :
                     LET slot == TopFrame.slots + Functions[obs'.name].ups[i].index
                         u == Pushed(stack', stackTop')[i]
                     IN  /\ upvalues'[u].open /\ upvalues'[u].location = slot
                         /\ \E k \in 1..Len(openUpvalues') : openUpvalues'[k] = u
                         /\ \A k \in 1..Len(openUpvalues) :
                                upvalues[openUpvalues[k]].location = slot
                                    => openUpvalues[k] = u
          /\ (Running /\ status' = "RUNNING" /\ obs'.op = "SET_UPVALUE") =>
                 LET u == TopFrame.closure.upvalues[obs'.argc + 1]
                 IN  stack[stackTop] =
                         IF upvalues'[u].open THEN stack'[upvalues'[u].location + 1]
                         ELSE upvalues'[u].closed]_vars

\* S and G hold setx and getx of one call of pair(1, 1), which share the
\* upvalue of x, closed by the return of pair; S() has assigned 2 to x and
\* G() has returned 2 to the script
C31_Witness ==
    /\ Running /\ Len(frames) = 1 /\ obs.op = "RETURN"
    /\ Defined("S") /\ Defined("G")
    /\ IS_CLOSURE(globals["S"]) /\ globals["S"].fn = "setx"
    /\ IS_CLOSURE(globals["G"]) /\ globals["G"].fn = "getx"
    /\ globals["S"].upvalues = globals["G"].upvalues
    /\ ~upvalues[globals["G"].upvalues[1]].open
    /\ stack[stackTop] = NUMBER_VAL(2)

----------------------------------------------------------------------------
(* Imports that fail.  A.cmel is missing, does not compile, or is one of   *)
(*     var V = 1; export V;                                                *)
(*     var V = 1; export V; U;              (U is not defined)             *)
(*     var V = 1; export V; number(nil);                                   *)
(*     var V = 1; export V; assert(nil);                                   *)
(*     var V = 1; export V; import "B";                                    *)
(* and B.cmel is missing or one of the first two.  The script is           *)
(* `var X = 1;`, `import "A";` and `import "B";` in any order, after       *)
(* `__enterTestMode();` or not.                                            *)

ImpBody(kind) ==
    << Ins("CONSTANT", "", "", 0, NUMBER_VAL(1)),
       Ins("DEFINE_GLOBAL", "V", "", 0, NIL_VAL),
       Ins("EXPORT", "V", "", 0, NIL_VAL) >>
    \o (CASE kind = "undefined" -> << Ins("GET_GLOBAL", "U", "", 0, NIL_VAL),
                                      Ins("POP", "", "", 0, NIL_VAL) >>
          [] kind \in {"number", "assert"} ->
                 << Ins("GET_GLOBAL", kind, "", 0, NIL_VAL),
                    Ins("NIL", "", "", 0, NIL_VAL),
                    Ins("CALL", "", "", 1, NIL_VAL),
                    Ins("POP", "", "", 0, NIL_VAL) >>
          [] kind = "importB" -> << Ins("IMPORT", "", "B", 0, NIL_VAL) >>
          [] OTHER -> <<>>)
    \o << Ins("NIL", "", "", 0, NIL_VAL),
          Ins("RETURN", "", "", 0, NIL_VAL) >>

ImpFiles(kinds) ==
    {[status |-> "missing", code |-> <<>>], [status |-> "compile error", code |-> <<>>]}
    \cup {[status |-> "ok", code |-> ImpBody(kind)] : kind \in kinds}

ImpFileSystems ==
    [A : ImpFiles({"good", "undefined", "number", "assert", "importB"}),
     B : ImpFiles({"good", "undefined"}),
     nofile : {[status |-> "missing", code |-> <<>>]}]

InitImp == InitWith(ScriptClosure) /\ files \in ImpFileSystems

NextImp ==
    \/ \E n \in {"__enterTestMode", "U", "number", "assert"} :
           (IF n = "__enterTestMode" THEN MainScript(0) /\ obs.op = "START" ELSE Fixed)
           /\ OpGetGlobal(n)
    \/ (Fixed \/ (MainScript(0) /\ ~Defined("X"))) /\ OpConstant(NUMBER_VAL(1))
    \/ Fixed /\ OpNil
    \/ \E n \in 0..1 : (Fixed \/ MainScript(1)) /\ OpCall(n, MaxDepth)
    \/ (Fixed \/ (MainScript(1) /\ obs.op = "CALL")) /\ OpPop
    \/ \E n \in {"V", "X"} :
           (Fixed \/ (MainScript(1) /\ obs.op = "CONSTANT" /\ n = "X")) /\ OpDefineGlobal(n)
    \/ Fixed /\ OpExport("V")
    \/ \E p \in {"A", "B"} : MainScript(0) /\ OpImport(p)
    \/ Fixed /\ OpImportNested("B")
    \/ Fixed /\ OpReturn

SpecImp == InitImp /\ [][NextImp]_vars

\* The loads that the failing step ends: those in progress and the one the
\* step starts
Failing(op, path) ==
    {cstack[i].path : i \in 1..Len(cstack)} \cup (IF op = "IMPORT" THEN {path} ELSE {})

\* C32: when a load fails (the file is missing or does not compile, or the
\* module body raises a runtime error) the run ends with a runtime error
\* reported to the importer, vm.globals and vm.currentModule are those of
\* the script that imported, and no failed path is in the module cache.
C32_FailedImportRestores ==
    [][(Running /\ status' # "RUNNING" /\ (cstack # <<>> \/ obs'.op = "IMPORT")) =>
          /\ status' = "INTERPRET_RUNTIME_ERROR"
          /\ cstack' = <<>>
          /\ globals' = (IF cstack = <<>> THEN globals ELSE cstack[1].savedGlobals)
          /\ currentModule' = 0
          /\ \A p \in Failing(obs'.op, obs'.path) : ~tableHas(modules', p)
          /\ raised' # <<>>
          /\ raised'[Len(raised')].msg.fmt = "Failed to load module \"%s\"."]_vars

----------------------------------------------------------------------------
(* One VM, several calls of interpret (the lines of a REPL session).  Each *)
(* line is a program of the closure programs above.                        *)

\* The driver calls interpret again, with a line that compiles, after the
\* previous call has returned
Interpret ==
    /\ status \in {"INTERPRET_OK", "INTERPRET_RUNTIME_ERROR"}
    /\ nextObj < MaxClosures + 1
    /\ Commit(interpret(VM, StartOfSource), Obs("START", "", "", 0))

NextRepl ==
    \/ NextUpv
    \/ Interpret

SpecRepl == Init /\ [][NextRepl]_vars

\* C33: when interpret returns INTERPRET_OK no frame is left, no upvalue is
\* open and the value stack is empty, so every call of interpret starts with
\* the script closure in the first slot of the stack.
C33_QuiescentAfterOk ==
    /\ status = "INTERPRET_OK" =>
           /\ frames = <<>>
           /\ openUpvalues = <<>>
           /\ stackTop = 0
    /\ (Running /\ obs.op = "START") =>
           /\ stackTop = 1
           /\ frames = <<[closure |-> stack[1], ip |-> 1, slots |-> 0]>>

----------------------------------------------------------------------------
(* The stack pointer and the frame count, checked under SpecErr *)

\* vm.h 9: FRAMES_MAX * UINT8_COUNT slots
STACK_MAX == FRAMES_MAX * 256

\* C34: the stack pointer is never below the stack base or beyond the end
\* of the stack array, run() executes only while a frame is left, and
\* outside test mode a call of a native that raised a runtime error ends
\* the run with the stack and the frames as runtimeError reset them.
C34_StackPointerInBounds ==
    /\ [](/\ 0 <= stackTop
          /\ stackTop <= STACK_MAX
          /\ Running => frames # <<>>)
    /\ [][(Running /\ ~testMode /\ obs'.op = "CALL" /\ obs'.name # "" /\ raised' # <<>>) =>
             /\ status' = "INTERPRET_RUNTIME_ERROR"
             /\ stackTop' = 0
             /\ frames' = <<>>]_vars

----------------------------------------------------------------------------
(* OP_INVOKE against OP_GET_PROPERTY followed by OP_CALL *)

RECURSIVE PushAll(_, _)
PushAll(s, values) ==
    IF values = <<>> THEN s ELSE PushAll(push(s, Head(values)), Tail(values))

\* `recv.name(args)` compiled without the fusion: OP_GET_PROPERTY with the
\* receiver on top, then the arguments, then OP_CALL
Unfused(s, name, argCount, env) ==
    LET args == [i \in 1..argCount |-> s.stack[s.stackTop - argCount + i]]
        got == Do_GET_PROPERTY(dropN(s, argCount), name)
    IN  IF got.status # "RUNNING" THEN got
        ELSE Do_CALL(PushAll(got, args), argCount, env)

\* C35: every OP_INVOKE ends as OP_GET_PROPERTY followed by OP_CALL would
\* have ended from the same state: a runtime error in both, or the same
\* stack, frames and objects in both.
C35_InvokeIsGetPropertyThenCall ==
    [][(Running /\ obs'.op = "INVOKE") =>
          \E env \in Envs : \E u \in {Unfused(VM, obs'.name, obs'.argc, env)} :
              /\ status' = u.status
              /\ status' = "RUNNING" =>
                     /\ stackTop' = u.stackTop
                     /\ stack' = u.stack
                     /\ frames' = u.frames
                     /\ heap' = u.heap
                     /\ instances' = u.instances
                     /\ testFailures' = u.testFailures]_vars

----------------------------------------------------------------------------
(* Methods of the primitives called with the arguments they declare and    *)
(* with more.  The script primitives goes on with statements `l.add(..);`, *)
(* `l.length(..);`, `n.add(..);` and `var f = l.add; f(..);` with up to    *)
(* two arguments 2 and 3.                                                  *)

PrimitivesClosure == CLOSURE_VAL(1, "primitives", 0, <<>>)

InitArg == InitWith(PrimitivesClosure) /\ files = NoFiles

OpInvokePrimitive(name, argCount) ==
    /\ Running /\ Temps = argCount + 1 /\ FailuresRoom
    /\ IS_LIST(First) \/ IS_NUMBER(First)
    /\ Decoded(Ins("INVOKE", name, "", argCount, NIL_VAL))
    /\ \E env \in Envs :
           Commit(Do_INVOKE(Fetched, name, argCount, env), Obs("INVOKE", name, "", argCount))

NextArg ==
    \/ \E c \in 1..3 :
           (Fixed \/ (InMain /\ Temps \in 1..2 /\ c > 1 /\ obs.op # "INVOKE"
                      /\ Len(heap[1].items) < MaxItems))
           /\ OpConstant(NUMBER_VAL(c))
    \/ Fixed /\ OpBuildList(1)
    \/ \E name \in {"l", "n", "f"} :
           (Fixed \/ (MainScript(1) /\ IS_BOUND_NATIVE(First) /\ name = "f" /\ ~Defined("f")))
           /\ OpDefineGlobal(name)
    \/ \E name \in {"l", "n", "f"} : MainScript(0) /\ Defined(name) /\ OpGetGlobal(name)
    \/ MainScript(1) /\ obs.op = "GET_GLOBAL" /\ ~Defined("f") /\ OpGetPropertyOfList("add")
    \/ \E name \in {"add", "length"}, argCount \in 0..2 :
           MainScript(argCount + 1) /\ OpInvokePrimitive(name, argCount)
    \/ \E argCount \in 0..2 :
           MainScript(argCount + 1) /\ IS_BOUND_NATIVE(First) /\ OpCall(argCount, MaxDepth)
    \/ MainScript(1) /\ obs.op \in {"INVOKE", "CALL"} /\ OpPop

SpecArg == InitArg /\ [][NextArg]_vars

\* The native that the instruction about to execute calls with argc
\* arguments and its receiver, when it passes the arity check: [name, receiver]
PrimitiveCall(op, name, argc) ==
    LET callee == stack[stackTop - argc]
        called == IF op = "CALL" /\ IS_BOUND_NATIVE(callee)
                  THEN [name |-> callee.name, receiver |-> callee.receiver]
                  ELSE IF op = "INVOKE" /\ (IS_LIST(callee) \/ IS_NUMBER(callee))
                          /\ tableHas(PrimitiveMethods[callee.t], name)
                  THEN [name |-> PrimitiveMethods[callee.t][name].name, receiver |-> callee]
                  ELSE [name |-> "", receiver |-> NIL_VAL]
    IN  IF called.name # "" /\ ~(argc + 1 < PrimitiveArity[called.name]) THEN called
        ELSE [name |-> "", receiver |-> NIL_VAL]

\* C36: a method of a primitive called with any number of arguments that
\* passes the arity check works on its receiver: add of a list appends one
\* of the arguments to the receiver and returns the receiver, length of a
\* list returns the number of items of the receiver, add of a number returns
\* the receiver plus one of the arguments.
C36_ReceiverIsLastArgument ==
    [][(Running /\ obs'.op \in {"INVOKE", "CALL"}) =>
          LET argc == obs'.argc
              called == PrimitiveCall(obs'.op, obs'.name, argc)
              recv == called.receiver
              Argument(v) == \E i \in 1..argc : stack[stackTop - argc + i] = v
          IN  CASE called.name = "addListNative" ->
                       /\ status' = "RUNNING"
                       /\ stack'[stackTop'] = recv
                       /\ Len(heap'[recv.id].items) = Len(heap[recv.id].items) + 1
                       /\ Argument(heap'[recv.id].items[Len(heap'[recv.id].items)])
                [] called.name = "listLengthNative" ->
                       /\ status' = "RUNNING"
                       /\ stack'[stackTop'] = NUMBER_VAL(Len(heap[recv.id].items))
                [] called.name = "addNumberNative" ->
                       /\ status' = "RUNNING"
                       /\ \E i \in 1..argc :
                              stack'[stackTop'].n = recv.n + stack[stackTop - argc + i].n
                [] OTHER -> TRUE]_vars

----------------------------------------------------------------------------
(* Frames, checked under SpecCls *)

\* C37: OP_CALL and OP_INVOKE of a closure push one frame whose slots is the
\* slot of the callee (argc + 1 below the stack top) and leave the frames
\* of the callers alone; OP_RETURN to a calling frame removes that frame
\* only, leaves the stack top one above its slots and the returned value in
\* that slot.  No step changes a frame below the running one, so the
\* frame that called is found as the call left it.
C37_CallReturnDiscipline ==
    [][/\ (Running /\ status' = "RUNNING" /\ obs'.op \in {"CALL", "INVOKE"}
                   /\ Len(frames') # Len(frames)) =>
              /\ Len(frames') = Len(frames) + 1
              /\ frames'[Len(frames')].slots = stackTop - obs'.argc - 1
              /\ stackTop' = stackTop
              /\ \A i \in 1..Len(frames) :
                     /\ frames'[i].closure = frames[i].closure
                     /\ frames'[i].slots = frames[i].slots
       /\ (Running /\ status' = "RUNNING" /\ obs'.op = "RETURN"
                   /\ Len(frames) > InitialFrameCount(VM)) =>
              /\ frames' = SubSeq(frames, 1, Len(frames) - 1)
              /\ stackTop' = TopFrame.slots + 1
              /\ stack'[stackTop'] = stack[stackTop]
       /\ (Running /\ status' = "RUNNING") =>
              \A i \in 1..(Len(frames) - 1) :
                  i <= Len(frames') => frames'[i] = frames[i]]_vars

\* `K(1);` has been evaluated by the script: init, called with one
\* argument, has returned the instance to the slot that held the class
C37_Witness ==
    /\ Running /\ obs.op = "RETURN" /\ Len(frames) = 1
    /\ stackTop = 2 /\ IS_INSTANCE(stack[2])
    /\ Len(instances) = 1 /\ instances[1].klass = 1
    /\ ~Defined("o")

----------------------------------------------------------------------------
(* Strings (object.c 161-203).  An ObjString is its bytes, its length and  *)
(* its hash; vm.strings is the set of the strings interned.  A hash has    *)
(* 32 bits, kept as two halves of 16 bits.  strings.collect says whether   *)
(* the next allocation runs a collection.                                  *)

MaxBytes == 2       \* the longest string made
MaxStrings == 3     \* the strings allocated in one run

RECURSIVE Xor(_, _)
Xor(a, b) ==
    IF a = 0 THEN b
    ELSE IF b = 0 THEN a
    ELSE 2 * Xor(a \div 2, b \div 2) + ((a + b) % 2)

\* hash ^= (uint8_t)key[i]; hash *= 16777619, which is 2^24 + 403
hashByte(hash, byte) ==
    LET lo == Xor(hash.lo, byte)
    IN  [lo |-> (lo * 403) % 65536,
         hi |-> (hash.hi * 403 + (lo * 403) \div 65536 + (lo % 256) * 256) % 65536]

RECURSIVE hashLoop(_, _, _, _)
hashLoop(key, i, length, hash) ==
    IF i >= length THEN hash
    ELSE hashLoop(key, i + 1, length, hashByte(hash, key[i + 1]))

\* FNV-1a from 2166136261, which is 33052 * 2^16 + 40389
hashString(key, length) == hashLoop(key, 0, length, [hi |-> 33052, lo |-> 40389])

\* find_string: the interned string of this length, hash and content, or
\* NULL (0)
tableFindString(st, chars, length, hash) ==
    LET found == {k \in st.table : /\ st.objects[k].length = length
                                   /\ st.objects[k].hash = hash
                                   /\ st.objects[k].chars = SubSeq(chars, 1, length)}
    IN  IF found = {} THEN 0 ELSE CHOOSE k \in found : TRUE

\* The memory of a string that was freed: its bytes are gone with it
FreedString == [chars |-> <<>>, length |-> 0, hash |-> [hi |-> 0, lo |-> 0], freed |-> TRUE]

\* A collection as the strings see it: the table entries whose key is not
\* marked are removed, then the unmarked strings are freed
sweep(st, marked) ==
    [st EXCEPT !.table = @ \cap marked,
               !.objects = [k \in DOMAIN @ |-> IF k \in marked THEN @[k] ELSE FreedString]]

\* ALLOCATE_OBJ, and tableSet with the string on the stack
allocateString(st, chars, length, hash) ==
    LET id == Len(st.objects) + 1
        string == [chars |-> chars, length |-> length, hash |-> hash, freed |-> FALSE]
        pushed == [st EXCEPT !.objects = Append(@, string)]
        room == IF st.collect THEN sweep(pushed, st.held \cup {id}) ELSE pushed
    IN  NRet([room EXCEPT !.table = @ \cup {id}], id)

takeString(st, chars, length) ==
    LET hash == hashString(chars, length)
        interned == tableFindString(st, chars, length, hash)
    IN  IF interned # 0 THEN NRet(st, interned)
        ELSE allocateString(st, chars, length, hash)

copyStringUninterned(st, chars, length) ==
    allocateString(st, SubSeq(chars, 1, length), length, hashString(chars, length))

copyString(st, chars, length) ==
    LET hash == hashString(chars, length)
        interned == tableFindString(st, chars, length, hash)
    IN  IF interned # 0 THEN NRet(st, interned)
        ELSE allocateString(st, SubSeq(chars, 1, length), length, hash)

\* The bytes of '1' and 'a'
Literals == {<<>>, <<49>>, <<97>>, <<49, 97>>}

\* snprintf(buffer, sizeof(buffer), "%.0f", num) of a whole number
RECURSIVE Digits(_)
Digits(n) == IF n < 10 THEN <<48 + n>> ELSE Digits(n \div 10) \o <<48 + (n % 10)>>

Live(st) == {k \in DOMAIN st.objects : ~st.objects[k].freed}
Stressed == {[strings EXCEPT !.collect = c] : c \in BOOLEAN}

\* The caller keeps the string that the call returned
Returned(site, r) ==
    /\ Len(r.s.objects) <= MaxStrings
    /\ strings' = [r.s EXCEPT !.collect = FALSE, !.held = @ \cup {r.result}]
    /\ obs' = Obs(site, IF r.result \in DOMAIN strings.objects THEN "interned" ELSE "allocated",
                  "", r.result)
    /\ UNCHANGED <<stack, stackTop, frames, globals, modules, moduleObjs, currentModule,
                   upvalues, openUpvalues, nextObj, classes, instances, heap, testMode,
                   testFailures, cstack, files, status, stderr, stdout, raised,
                   protoList, varValue, exportSnapshot, front, act, tempRoots>>

\* A string literal of the source
Literal ==
    /\ \E chars \in Literals, st \in Stressed :
           Returned("literal", copyString(st, chars, Len(chars)))

\* concatenate (vm.c 922-936) of two strings on the stack
Concatenate ==
    /\ \E a \in strings.held, b \in strings.held, st \in Stressed :
           /\ strings.objects[a].length + strings.objects[b].length <= MaxBytes
           /\ Returned("concatenate",
                       takeString(st, strings.objects[a].chars \o strings.objects[b].chars,
                                  strings.objects[a].length + strings.objects[b].length))

\* valueToString of a number (value.c 100-139)
NumberToString ==
    /\ \E n \in {1, 11}, st \in Stressed :
           /\ Len(Digits(n)) <= MaxBytes
           /\ Returned("valueToString", copyString(st, Digits(n), Len(Digits(n))))

\* charAt (vm.c 452), slice (vm.c 492) and the pieces of split (vm.c 408,
\* 417): copyString(string->chars + start, length)
CopyPart ==
    /\ \E a \in strings.held, st \in Stressed :
           \E start \in 0..strings.objects[a].length :
               \E length \in 0..(strings.objects[a].length - start) :
                   Returned("slice",
                            copyString(st, SubSeq(strings.objects[a].chars, start + 1,
                                                  strings.objects[a].length), length))

\* The program drops a string
Forget ==
    /\ \E a \in strings.held : strings' = [strings EXCEPT !.held = @ \ {a}]
    /\ obs' = Obs("POP", "", "", 0)
    /\ UNCHANGED <<stack, stackTop, frames, globals, modules, moduleObjs, currentModule,
                   upvalues, openUpvalues, nextObj, classes, instances, heap, testMode,
                   testFailures, cstack, files, status, stderr, stdout, raised,
                   protoList, varValue, exportSnapshot, front, act, tempRoots>>

\* The allocation of an object that is no string runs a collection
CollectStrings ==
    /\ strings' = sweep(strings, strings.held)
    /\ obs' = Obs("collectGarbage", "", "", 0)
    /\ UNCHANGED <<stack, stackTop, frames, globals, modules, moduleObjs, currentModule,
                   upvalues, openUpvalues, nextObj, classes, instances, heap, testMode,
                   testFailures, cstack, files, status, stderr, stdout, raised,
                   protoList, varValue, exportSnapshot, front, act, tempRoots>>

InitStr == InitWith(ScriptClosure) /\ files = NoFiles

NextStr == Literal \/ Concatenate \/ NumberToString \/ CopyPart \/ Forget \/ CollectStrings

SpecStr == InitStr /\ [][NextStr]_vars

SameContent(a, b) ==
    /\ strings.objects[a].length = strings.objects[b].length
    /\ strings.objects[a].chars = strings.objects[b].chars

\* C38: two live strings of equal length and bytes are one object, every
\* live string is interned and no interned string is freed, so OP_EQUAL
\* (valuesEqual, by address) of two strings that the program holds is true
\* exactly when they have the same content.
C38_StringsAreInterned ==
    /\ \A a \in Live(strings), b \in Live(strings) : SameContent(a, b) => a = b
    /\ strings.table = Live(strings)
    /\ strings.held \subseteq Live(strings)
    /\ \A a \in strings.held, b \in strings.held :
           valuesEqual(OBJ_VAL(a), OBJ_VAL(b)) <=> SameContent(a, b)

\* A concatenation has returned a string of two bytes that was interned
\* before, after a collection has freed a string, and the program holds
\* another string besides
C38_Witness ==
    /\ obs.op = "concatenate" /\ obs.name = "interned"
    /\ strings.objects[obs.argc].length = 2
    /\ Cardinality(strings.held) >= 2
    /\ \E k \in DOMAIN strings.objects : strings.objects[k].freed

----------------------------------------------------------------------------
(* Temporary roots.  The script declares the list l and the functions each *)
(* and g.                                                                  *)

RootsClosure == CLOSURE_VAL(1, "roots", 0, <<>>)

InitTmp == InitWith(RootsClosure) /\ files = NoFiles

Unfixed == Running /\ ~Fixed

InEach == Unfixed /\ TopFrame.closure.fn = "each"

\* The operand x: the parameter in each, the literal 1 in the script
OpX == (InEach /\ OpGetLocal(1)) \/ (InMain /\ OpConstant(NUMBER_VAL(1)))

\* The expressions are `x + "a"`, `x + nil`, `assertEqual(x, 1)`,
\* `l.map(each)`, `l.map(g)` and, in the script, `__enterTestMode()`,
\* `"a".split("a")` and `"a".split(1)`; the script has expression
\* statements and each is `fun each(x) { return <expression>; }`
NextTmp ==
    \/ Fixed /\ \E n \in 1..2 : OpConstant(NUMBER_VAL(n))
    \/ Fixed /\ OpBuildList(2)
    \/ Fixed /\ \E name \in {"l", "each", "g"} : OpDefineGlobal(name)
    \/ Fixed /\ \E fn \in {"each", "g"} : OpClosure(fn, "roots")
    \/ (Fixed \/ (Unfixed /\ Temps = 1 /\ IS_NUMBER(First) /\ obs.op \in {"GET_LOCAL", "CONSTANT"}))
           /\ OpNil
    \/ InMain /\ Temps = 0 /\ ~testMode /\ OpGetGlobal("__enterTestMode")
    \/ \E name \in {"assertEqual", "l"} : Unfixed /\ Temps = 0 /\ OpGetGlobal(name)
    \/ Unfixed /\ Temps = 0 /\ OpX
    \/ Unfixed /\ Temps = 1 /\ IS_NATIVE(First) /\ First.name = "assertEqual" /\ OpX
    \/ Unfixed /\ Temps = 2 /\ IS_NATIVE(First) /\ OpConstant(NUMBER_VAL(1))
    \/ Unfixed /\ Temps = 1 /\ IS_NUMBER(First) /\ obs.op \in {"GET_LOCAL", "CONSTANT"}
           /\ OpConstant(Str("a"))
    \/ InMain /\ Temps \in 0..1 /\ (Temps = 1 => IS_STRING(First) /\ obs.op = "CONSTANT")
           /\ OpConstant(Str("a"))
    \/ InMain /\ Temps = 1 /\ IS_STRING(First) /\ obs.op = "CONSTANT"
           /\ OpConstant(NUMBER_VAL(1))
    \/ \E name \in {"each", "g"} : Unfixed /\ Temps = 1 /\ IS_LIST(First) /\ OpGetGlobal(name)
    \/ Unfixed /\ Temps = 2 /\ IS_LIST(First) /\ Len(heap) <= MaxObjects
           /\ OpInvoke("map", 1, MaxDepth)
    \/ Unfixed /\ Temps = 2 /\ IS_STRING(First) /\ OpInvokeString("split", 1)
    \/ \E argc \in {0, 2} :
           Unfixed /\ Temps = argc + 1 /\ IS_NATIVE(First) /\ OpCall(argc, MaxDepth + 1)
    \/ Unfixed /\ Temps = 2 /\ IS_NUMBER(First) /\ OpAdd
    \/ InMain /\ Temps = 1 /\ obs.op \in {"CALL", "INVOKE", "ADD", "RETURN"} /\ OpPop
    \/ (Fixed \/ (InEach /\ Temps = 1 /\ obs.op \in {"CALL", "INVOKE", "ADD", "RETURN"}))
           /\ OpReturn

SpecTmp == InitTmp /\ [][NextTmp]_vars

\* The activations of listMapNative that wait for a run() of their own
MapsInside(cs) == {i \in DOMAIN cs : cs[i].kind = "listMap"}

\* C39: tempRootCount is never negative; an instruction that completes
\* within its run() leaves the temporary roots as they were; the roots are
\* the result lists of the listMapNative activations that are inside a
\* run(), the innermost last; and none is left when interpret() returns.
C39_TempRootsBalanced ==
    /\ [](tempRoots.count >= 0 /\ tempRoots.count = Len(tempRoots.values))
    /\ [][(Running /\ status' = "RUNNING" /\ Len(cstack') = Len(cstack)) =>
              tempRoots' = tempRoots]_vars
    /\ []((Running \/ status \in {"INTERPRET_OK", "INTERPRET_RUNTIME_ERROR"}) =>
              /\ tempRoots.count = Cardinality(MapsInside(cstack))
              /\ \A i \in MapsInside(cstack) :
                     tempRoots.values[Cardinality({j \in MapsInside(cstack) : j <= i})]
                         = LIST_VAL(cstack[i].result))

\* In test mode a callback of l.map, itself called by a callback of l.map,
\* has failed assertEqual: runtimeError has recorded the failure while two
\* result lists are temporary roots
C39_Witness ==
    /\ Running /\ testMode /\ Len(cstack) = 2 /\ tempRoots.count = 2
    /\ testFailures.items # <<>>
    /\ obs.op = "CALL" /\ obs.name = "assertEqual" /\ stack[stackTop] = BOOL_VAL(FALSE)

====
